---- MODULE Spec2Model ----
(***************************************************************************)
(* atom-updater: the atomic directory replacement engine of src/main.go,   *)
(* and main, which validates, waits for the old process, calls the engine  *)
(* and launches the new version; and AtomUpdater.update() of the Node      *)
(* wrapper, which starts main as a detached process.                       *)
(*                                                                         *)
(* The filesystem is one tree, a function from paths (sequences of entry   *)
(* names, <<>> the root) to nodes.  One atomicReplace call runs as a state *)
(* machine; every step performs at most one mutating filesystem call of    *)
(* the code (plus the read-only calls around it), so that every            *)
(* intermediate filesystem state of the call is a state of the model.      *)
(***************************************************************************)
EXTENDS Integers, Sequences, FiniteSets, TLC

VARIABLES
    goos,          \* runtime.GOOS of the build
    privileged,    \* the process bypasses permission checks (root)
    fs,            \* the filesystem: path -> node
    fs0,           \* the filesystem the call started on (never written)
    currentPath,   \* argument of atomicReplace
    newPath,       \* argument of atomicReplace
    pc,            \* position inside atomicReplace
    variant,       \* "plain" or "bundle": the mover/copier pair dispatched to
    stack,         \* the active tree walks, innermost last
    deferred,      \* the defers registered by restoreAppBundleDirectoryBackup
    err,           \* the value atomicReplace returns ("pending" while running)
    rollbackErr,   \* the restore step returned an error
    cleanupErr,    \* the final os.RemoveAll of the backup returned an error
    currentType,   \* detectApplicationType(currentPath) as atomicReplace saw it
    newType,       \* detectApplicationType(newPath) as atomicReplace saw it
    faults,        \* injected I/O faults so far
    lastOps,       \* the filesystem calls of the last step: {[op, path]}
    mainPc,        \* position inside main ("direct": atomicReplace called on its own)
    pid,           \* the process config.PID names: "running" or "gone"
    appName,       \* config.AppName
    launched,      \* what launchApplication did: "no", "started", "failed"
    launchedPath,  \* the executable or bundle it started (<<>> when none)
    launchedDir,   \* the working directory it gave the process (<<>> when none)
    exitCode,      \* how main ended ("running" until it has)
    order,         \* the steps main has taken, in order
    result,        \* what AtomUpdater.update() gave its caller: "none" (not
                   \* called, or not back yet), "success" (a result with
                   \* success = true), "threw"
    clock,         \* time.Now().UnixNano(), as four 16-bit limbs, high first
    attempts       \* the names generateTempFilename has given: <<[at, name]>>

vars == <<goos, privileged, fs, fs0, currentPath, newPath, pc, variant, stack,
          deferred, err, rollbackErr, cleanupErr, currentType, newType, faults,
          lastOps, mainPc, pid, appName, launched, launchedPath, launchedDir, exitCode, order,
          result, clock, attempts>>

nameVars == <<clock, attempts>>

mainVars == <<mainPc, pid, appName, launched, launchedPath, launchedDir, exitCode, order, result,
              nameVars>>

(***************************************************************************)
(* Bounds.                                                                 *)
(***************************************************************************)
\* Injected I/O faults (a call that fails although permissions allow it).
MaxFaults == 1
\* The longest path, in components, the filesystem accepts (ENAMETOOLONG).
PathMax == 5
\* The attempts whose backup directory names are compared.
MaxAttempts == 2

(***************************************************************************)
(* Names.  Entry names are strings; the order of a directory listing       *)
(* (os.ReadDir and filepath.WalkDir sort by name) is the byte order, given *)
(* here for the names of the model.                                        *)
(***************************************************************************)
BackupName == ".backup"    \* generateTempFilename("", "backup"), timestamp left out

NameOrder ==
    << ".backup", "A.app", "A.app.current", "A.app.new", "A.app.old",
       "app", "bin", "lib", "readme", "setup.exe", "staged", "tool.exe" >>

\* strings.HasSuffix(name, ".app")
HasSuffixApp(name) == name = "A.app"

\* name + suffix, for the names the code appends a suffix to
AddSuffix(name, suffix) ==
    CASE name = "A.app" /\ suffix = ".new"     -> "A.app.new"
      [] name = "A.app" /\ suffix = ".old"     -> "A.app.old"
      [] name = "A.app" /\ suffix = ".current" -> "A.app.current"

\* strings.HasSuffix(strings.ToLower(name), ".exe")
HasSuffixExe(name) == name \in {"setup.exe", "tool.exe"}

\* strings.ToLower(filepath.Ext(name))
ExtOf(name) == IF name \in {"setup.exe", "tool.exe"} THEN ".exe"
               ELSE IF name \in {"A.app"} THEN ".app"
               ELSE IF name = "A.app.new" THEN ".new"
               ELSE IF name = "A.app.old" THEN ".old"
               ELSE IF name = "A.app.current" THEN ".current"
               ELSE IF name = ".backup" THEN ".backup"
               ELSE ""

(***************************************************************************)
(* generateTempFilename.  time.Now().UnixNano() has 64 bits; a clock value *)
(* is kept as four limbs of 16 bits, the most significant first, and a     *)
(* string of hexadecimal digits as the sequence of its digits.             *)
(***************************************************************************)
\* the digits timestamp[:8] keeps
KeptDigits == 8

\* the w hexadecimal digits of n, the most significant first
RECURSIVE HexDigits(_, _)
HexDigits(n, w) ==
    IF w = 0 THEN <<>> ELSE Append(HexDigits(n \div 16, w - 1), n % 16)

RECURSIVE StripZeros(_)
StripZeros(d) ==
    IF Len(d) > 1 /\ Head(d) = 0 THEN StripZeros(Tail(d)) ELSE d

\* strconv.FormatInt(t, 16)
FormatInt16(t) ==
    StripZeros(HexDigits(t[1], 4) \o HexDigits(t[2], 4)
               \o HexDigits(t[3], 4) \o HexDigits(t[4], 4))

\* generateTempFilename(originalPath, suffix) at the clock value t: the part
\* of the name that comes from the clock, timestamp[:8]
generateTempFilename(t) ==
    LET timestamp == FormatInt16(t)
    IN SubSeq(timestamp, 1, KeptDigits)

\* a clock value of the year 2026 (0x18E2...), and the clock values a run
\* may read: they differ from Epoch by one nanosecond, by 65536 ns, by 2^32
\* ns (4.29 s) and by combinations of these
Epoch == <<6370, 0, 0, 0>>
Clocks == {<<6370, b, c, d>> : b \in {0, 1}, c \in {0, 1}, d \in {0, 1, 65535}}

\* t is earlier than u
Earlier(t, u) ==
    \E i \in 1..4 : t[i] < u[i] /\ \A j \in 1..(i - 1) : t[j] = u[j]

(***************************************************************************)
(* Paths.                                                                  *)
(***************************************************************************)
Join(p, name) == Append(p, name)
Parent(p) == SubSeq(p, 1, Len(p) - 1)
Base(p) == p[Len(p)]
IsPrefix(p, q) == Len(p) <= Len(q) /\ SubSeq(q, 1, Len(p)) = p
StrictlyInside(q, p) == Len(p) < Len(q) /\ IsPrefix(p, q)
\* filepath.Rel(base, p) for p under base
Rel(base, p) == SubSeq(p, Len(base) + 1, Len(p))
\* strings.HasSuffix(path, ".app") on a cleaned path
PathHasSuffixApp(p) == Len(p) > 0 /\ HasSuffixApp(Base(p))

(***************************************************************************)
(* Nodes and permission bits.                                              *)
(***************************************************************************)
Oct(o, g, w) == o * 64 + g * 8 + w
File(data, mode) == [kind |-> "file", data |-> data, mode |-> mode]
Dir(mode) == [kind |-> "dir", data |-> "", mode |-> mode]

OwnerR(m) == (m \div 256) % 2 = 1
OwnerW(m) == (m \div 128) % 2 = 1
OwnerX(m) == (m \div 64) % 2 = 1
\* mode & 0111 != 0
AnyX(m) == (m \div 64) % 2 = 1 \/ (m \div 8) % 2 = 1 \/ m % 2 = 1

\* Permission bits are not enforced for root, nor on Windows.
NoCheck == privileged \/ goos = "windows"

Exists(f, p) == p \in DOMAIN f
IsDir(f, p) == Exists(f, p) /\ f[p].kind = "dir"
IsFile(f, p) == Exists(f, p) /\ f[p].kind = "file"
Under(f, p) == {q \in DOMAIN f : IsPrefix(p, q)}
ChildrenOf(f, p) == {q \in DOMAIN f : Len(q) = Len(p) + 1 /\ IsPrefix(p, q)}

\* every directory from the root down to p (p excluded) can be searched
CanReach(f, p) ==
    \A i \in 0..(Len(p) - 1) :
        LET a == SubSeq(p, 1, i) IN IsDir(f, a) /\ (NoCheck \/ OwnerX(f[a].mode))
\* entries of directory d can be created, removed or renamed
CanWriteDir(f, d) ==
    IsDir(f, d) /\ CanReach(f, d) /\ (NoCheck \/ (OwnerW(f[d].mode) /\ OwnerX(f[d].mode)))
CanListDir(f, d) ==
    IsDir(f, d) /\ CanReach(f, d) /\ (NoCheck \/ OwnerR(f[d].mode))
CanReadFile(f, p) ==
    IsFile(f, p) /\ CanReach(f, p) /\ (NoCheck \/ OwnerR(f[p].mode))
CanWriteFile(f, p) ==
    IsFile(f, p) /\ CanReach(f, p) /\ (NoCheck \/ OwnerW(f[p].mode))
\* os.Stat(p) returns no error
StatOk(f, p) == Exists(f, p) /\ CanReach(f, p)

(***************************************************************************)
(* Filesystem calls.  Each returns [ok, fs]: whether the call returned no  *)
(* error, and the filesystem after it.                                     *)
(***************************************************************************)
Ok(f) == [ok |-> TRUE, fs |-> f]
Fail(f) == [ok |-> FALSE, fs |-> f]

Restrict(f, S) == [p \in S |-> f[p]]

\* tree, a function from relative paths to nodes, placed at path at
Place(tree, at) ==
    [p \in {at \o q : q \in DOMAIN tree} |-> tree[Rel(at, p)]]

\* the mode a new directory gets from os.Mkdir(_, perm): the permission
\* bits of perm (the model's modes are not changed by a 022 umask)
MkdirMode(perm) == perm % 512

\* os.Mkdir(p, perm)
Mkdir(f, p, perm) ==
    IF /\ ~Exists(f, p)
       /\ Len(p) >= 1
       /\ Len(p) <= PathMax
       /\ CanWriteDir(f, Parent(p))
    THEN Ok((p :> Dir(MkdirMode(perm))) @@ f)
    ELSE Fail(f)

\* os.MkdirAll(p, perm): nil when p is a directory already; otherwise the
\* missing ancestors and p are created with perm
RECURSIVE MkdirAll(_, _, _)
MkdirAll(f, p, perm) ==
    IF IsDir(f, p) /\ CanReach(f, p) THEN Ok(f)
    ELSE IF Exists(f, p) \/ Len(p) = 0 THEN Fail(f)
    ELSE LET up == MkdirAll(f, Parent(p), perm) IN
         IF ~up.ok THEN up ELSE Mkdir(up.fs, p, perm)

\* os.Rename(src, dst): the whole subtree moves; an existing file, or an
\* existing empty directory under a directory, is replaced
Rename(f, src, dst) ==
    IF /\ Exists(f, src)
       /\ Len(dst) >= 1
       /\ Len(dst) <= PathMax
       /\ ~IsPrefix(src, dst)
       /\ CanWriteDir(f, Parent(src))
       /\ CanWriteDir(f, Parent(dst))
       /\ \/ ~Exists(f, dst)
          \/ IsFile(f, src) /\ IsFile(f, dst)
          \/ IsDir(f, src) /\ IsDir(f, dst) /\ Under(f, dst) = {dst}
       /\ \A q \in Under(f, src) : Len(dst) + Len(q) - Len(src) <= PathMax
    THEN LET moved == {dst \o Rel(src, q) : q \in Under(f, src)}
             kept  == (DOMAIN f \ Under(f, src)) \ Under(f, dst)
         IN Ok([p \in kept \cup moved |->
                  IF p \in moved THEN f[src \o Rel(dst, p)] ELSE f[p]])
    ELSE Fail(f)

\* what os.RemoveAll(p) can delete: an entry goes when its parent directory
\* is writable and everything below it went
Removable(f, q) ==
    \A r \in Under(f, q) :
        /\ CanWriteDir(f, Parent(r))
        /\ (IsDir(f, r) /\ ChildrenOf(f, r) # {}) => CanListDir(f, r)

\* os.RemoveAll(p): nil when p does not exist; deletes what it can
RemoveAll(f, p) ==
    IF ~Exists(f, p) THEN Ok(f)
    ELSE LET gone == {q \in Under(f, p) : Removable(f, q)}
             g    == Restrict(f, DOMAIN f \ gone)
         IN IF Exists(g, p) THEN Fail(g) ELSE Ok(g)

\* os.ReadDir(d): the entries of d sorted by name, each with its type
ReadDir(f, d) ==
    LET names == {Base(q) : q \in ChildrenOf(f, d)}
        sorted == SelectSeq(NameOrder, LAMBDA n : n \in names)
    IN [i \in 1..Len(sorted) |->
          [name |-> sorted[i], isDir |-> IsDir(f, Join(d, sorted[i]))]]

\* the mode os.Create gives a new file: 0666 under the usual 022 umask
CreateMode == Oct(6, 4, 4)

\* copyFile(src, dst).  fault = "fail": os.Open fails; fault = "partial":
\* io.Copy fails after os.Create made or truncated dst
copyFile(f, src, dst, fault) ==
    IF fault = "fail" \/ ~CanReadFile(f, src) THEN Fail(f)
    ELSE LET m == MkdirAll(f, Parent(dst), Oct(7, 5, 5)) IN
         IF ~m.ok THEN Fail(m.fs)
         ELSE LET g == m.fs
                  created ==
                      IF Exists(g, dst)
                      THEN IF CanWriteFile(g, dst)
                           THEN Ok([g EXCEPT ![dst].data = ""])
                           ELSE Fail(g)
                      ELSE IF CanWriteDir(g, Parent(dst)) /\ Len(dst) <= PathMax
                           THEN Ok((dst :> File("", CreateMode)) @@ g)
                           ELSE Fail(g)
              IN IF ~created.ok THEN created
                 ELSE IF fault = "partial"
                      THEN Fail([created.fs EXCEPT ![dst].data = "part"])
                      ELSE Ok([created.fs EXCEPT ![dst].data = created.fs[src].data])

\* a bundle copy that makes the bundle directory without its contents: a
\* variant C8 must tell from the function of the code
copyAppBundleSystem_Shallow(f, src, dst, fault) ==
    IF /\ fault = "none"
       /\ goos = "darwin"
       /\ StatOk(f, src)
       /\ ~Exists(f, dst)
       /\ CanWriteDir(f, Parent(dst))
    THEN Ok((dst :> f[src]) @@ f)
    ELSE Fail(f)

\* copyAppBundleSystem(src, dst): the ditto command copies the whole bundle,
\* modes included; the command exists on macOS only.  fault = "fail": the
\* command fails at once; fault = "partial": it fails after it has made dst
copyAppBundleSystem(f, src, dst, fault) ==
    IF /\ fault # "fail"
       /\ goos = "darwin"
       /\ StatOk(f, src)
       /\ ~Exists(f, dst)
       /\ CanWriteDir(f, Parent(dst))
       /\ \A q \in Under(f, src) : Len(dst) + Len(q) - Len(src) <= PathMax
    THEN IF fault = "partial" THEN Fail((dst :> f[src]) @@ f)
         ELSE Ok(Place([q \in {Rel(src, r) : r \in Under(f, src)} |-> f[src \o q]], dst)
                 @@ f)
    ELSE Fail(f)

\* a filesystem call under an injected fault: the call fails and changes nothing
Try(fault, f, res) == IF fault = "fail" THEN Fail(f) ELSE res

(***************************************************************************)
(* Classification.                                                         *)
(***************************************************************************)
ApplicationType ==
    {"SingleFile", "MacAppBundle", "MacAppBundleDirectory", "MacDirectory",
     "WindowsAppDirectory", "LinuxAppDirectory", "GenericDirectory"}

\* areTypesCompatible demanding the same type on both sides: a variant C9
\* must tell from the function of the code
areTypesCompatible_SameType(cType, nType) == cType = nType

areTypesCompatible(cType, nType) ==
    IF cType = "SingleFile" /\ nType = "SingleFile" THEN TRUE
    ELSE IF cType # "SingleFile" /\ nType # "SingleFile" THEN TRUE
    ELSE FALSE

\* filepath.WalkDir(p, fn): the paths fn is called on without an error, in
\* order; a directory that cannot be listed is visited but not entered
RECURSIVE WalkDirSeq(_, _), WalkEntries(_, _, _)
WalkDirSeq(f, p) ==
    <<p>> \o (IF CanListDir(f, p) THEN WalkEntries(f, p, ReadDir(f, p)) ELSE <<>>)
WalkEntries(f, d, entries) ==
    IF entries = <<>> THEN <<>>
    ELSE WalkDirSeq(f, Join(d, Head(entries).name)) \o WalkEntries(f, d, Tail(entries))

isExecutable(name, mode) ==
    IF goos # "windows" THEN AnyX(mode)
    ELSE ExtOf(name) \in {".exe", ".com", ".bat", ".cmd"}

\* findExecutablesInDirectory(dir, extension): the executables below dir,
\* as full paths, in walk order (the code returns them relative to dir)
findExecutablesInDirectory(f, dir, extension) ==
    IF ~StatOk(f, dir) THEN <<>>
    ELSE SelectSeq(WalkDirSeq(f, dir), LAMBDA p :
            IF IsDir(f, p)
            THEN goos = "darwin" /\ PathHasSuffixApp(p)
            ELSE /\ (extension # "" => (Len(p) > 0 /\ HasSuffixExe(Base(p))))
                 /\ Len(p) > 0
                 /\ isExecutable(Base(p), f[p].mode))

containsAppBundles(f, dir) ==
    /\ CanListDir(f, dir)
    /\ \E q \in ChildrenOf(f, dir) : IsDir(f, q) /\ HasSuffixApp(Base(q))

\* detectMacDirectory looking for executables before it looks for bundles: a
\* variant C20 must tell from the function of the code
detectMacDirectory_ExecutablesFirst(f, p) ==
    IF \E q \in ChildrenOf(f, p) : IsFile(f, q) /\ AnyX(f[q].mode) THEN "MacDirectory"
    ELSE IF containsAppBundles(f, p) THEN "MacAppBundleDirectory"
    ELSE "GenericDirectory"

detectMacDirectory(f, p) ==
    IF containsAppBundles(f, p) THEN "MacAppBundleDirectory"
    ELSE IF findExecutablesInDirectory(f, p, "") # <<>> THEN "MacDirectory"
    ELSE "GenericDirectory"

detectWindowsApp(f, p) ==
    IF findExecutablesInDirectory(f, p, ".exe") # <<>> THEN "WindowsAppDirectory"
    ELSE "GenericDirectory"

detectLinuxApp(f, p) ==
    IF \E loc \in {Join(p, "bin"), Join(Join(p, "usr"), "bin"), p} :
          StatOk(f, loc) /\ findExecutablesInDirectory(f, loc, "") # <<>>
    THEN "LinuxAppDirectory"
    ELSE "GenericDirectory"

\* a classification that answers by the position of the caller, not by the
\* filesystem alone: a variant C19 must tell from the function of the code
detectApplicationType_ByCaller(f, p) ==
    IF ~StatOk(f, p) THEN [ok |-> FALSE, type |-> "SingleFile"]
    ELSE IF ~IsDir(f, p) THEN [ok |-> TRUE, type |-> "SingleFile"]
    ELSE [ok |-> TRUE,
          type |-> IF pc = "atomicReplace" THEN "GenericDirectory" ELSE "LinuxAppDirectory"]

\* detectApplicationType(p): [ok, type]; ok is FALSE when os.Stat fails
detectApplicationType(f, p) ==
    IF ~StatOk(f, p) THEN [ok |-> FALSE, type |-> "SingleFile"]
    ELSE IF ~IsDir(f, p) THEN [ok |-> TRUE, type |-> "SingleFile"]
    ELSE IF goos = "darwin" /\ PathHasSuffixApp(p)
         THEN [ok |-> TRUE, type |-> "MacAppBundle"]
    ELSE [ok |-> TRUE,
          type |-> CASE goos = "darwin"  -> detectMacDirectory(f, p)
                     [] goos = "windows" -> detectWindowsApp(f, p)
                     [] OTHER            -> detectLinuxApp(f, p)]

\* strings.ToLower(name), for the names of the model
ToLower(name) ==
    CASE name = "A.app" -> "a.app"
      [] name = "A.app.current" -> "a.app.current"
      [] name = "A.app.new" -> "a.app.new"
      [] name = "A.app.old" -> "a.app.old"
      [] name = "TOOL" -> "tool"
      [] OTHER -> name

\* strings.TrimSuffix(name, extension), for the names of the model
TrimSuffix(name, extension) ==
    IF extension = ".exe" /\ name = "tool.exe" THEN "tool"
    ELSE IF extension = ".exe" /\ name = "setup.exe" THEN "setup"
    ELSE name

\* findExecutableInDirectory looking at the direct children of appPath only:
\* a variant C22 must tell from the function of the code
findExecutableInDirectory_DirectOnly(f, appPath, preferredName) ==
    LET t == detectApplicationType(f, appPath)
        extension == IF t.type = "WindowsAppDirectory" THEN ".exe" ELSE ""
        executables == SelectSeq(findExecutablesInDirectory(f, appPath, extension),
                                 LAMBDA exe : Parent(exe) = appPath)
    IN IF ~t.ok \/ t.type \notin {"MacDirectory", "WindowsAppDirectory", "LinuxAppDirectory"}
       THEN [ok |-> FALSE, path |-> <<>>]
       ELSE IF executables = <<>> THEN [ok |-> FALSE, path |-> <<>>]
       ELSE [ok |-> TRUE, path |-> Head(executables)]

\* findExecutableInDirectory(appPath, preferredName): [ok, path]
findExecutableInDirectory(f, appPath, preferredName) ==
    LET t == detectApplicationType(f, appPath)
        extension == IF t.type = "WindowsAppDirectory" THEN ".exe" ELSE ""
        executables == findExecutablesInDirectory(f, appPath, extension)
        preferred == SelectSeq(executables, LAMBDA exe :
                        TrimSuffix(ToLower(Base(exe)), extension) = ToLower(preferredName))
    IN IF ~t.ok THEN [ok |-> FALSE, path |-> <<>>]
       ELSE IF t.type \notin {"MacDirectory", "WindowsAppDirectory", "LinuxAppDirectory"}
            THEN [ok |-> FALSE, path |-> <<>>]
       ELSE IF ~StatOk(f, appPath) \/ executables = <<>>
            THEN [ok |-> FALSE, path |-> <<>>]
       ELSE IF preferredName # "" /\ preferred # <<>>
            THEN [ok |-> TRUE, path |-> Head(preferred)]
       ELSE [ok |-> TRUE, path |-> Head(executables)]

\* launchMacAppBundleDirectory(appPath, appName): the first bundle of the listing
launchMacAppBundleDirectory(f, appPath) ==
    LET bundles == SelectSeq(ReadDir(f, appPath), LAMBDA e : e.isDir /\ HasSuffixApp(e.name))
    IN IF ~CanListDir(f, appPath) \/ bundles = <<>>
       THEN [ok |-> FALSE, path |-> <<>>]
       ELSE [ok |-> TRUE, path |-> Join(appPath, Head(bundles).name)]

\* launchApplication(appPath, appName) up to cmd.Start: [ok, path], the
\* executable or bundle it is about to start
launchApplication(f, appPath, name) ==
    LET t == detectApplicationType(f, appPath)
    IN IF ~t.ok THEN [ok |-> FALSE, path |-> <<>>]
       ELSE CASE t.type \in {"SingleFile", "MacAppBundle"} -> [ok |-> TRUE, path |-> appPath]
              [] t.type = "MacAppBundleDirectory" -> launchMacAppBundleDirectory(f, appPath)
              [] t.type \in {"MacDirectory", "WindowsAppDirectory", "LinuxAppDirectory"}
                    -> findExecutableInDirectory(f, appPath, name)
              [] OTHER -> [ok |-> FALSE, path |-> <<>>]

\* workDir, the cmd.Dir of the process launchApplication starts: every launch
\* function takes filepath.Dir of the path it is given, and
\* launchMacAppBundleDirectory gives launchMacAppBundle the bundle it found
launchWorkDir(f, appPath) ==
    IF detectApplicationType(f, appPath).type = "MacAppBundleDirectory"
    THEN appPath
    ELSE Parent(appPath)

(***************************************************************************)
(* The filesystems and arguments a call starts on.                         *)
(***************************************************************************)
EmptyTree == (<<>> :> Dir(Oct(7, 5, 5)))

\* the installed version: data "v1"
OldPlain ==
    EmptyTree
    @@ (<<"readme">> :> File("v1", Oct(6, 4, 4)))
    @@ (<<"bin">> :> Dir(Oct(7, 5, 5)))
    @@ (<<"bin", "app">> :> File("v1", Oct(7, 5, 5)))
OldBundle ==
    EmptyTree
    @@ (<<"A.app">> :> Dir(Oct(7, 5, 5)))
    @@ (<<"A.app", "app">> :> File("v1", Oct(7, 5, 5)))
    @@ (<<"readme">> :> File("v1", Oct(6, 4, 4)))
OldTool ==
    EmptyTree
    @@ (<<"lib">> :> Dir(Oct(5, 5, 5)))
    @@ (<<"tool.exe">> :> File("v1", Oct(6, 4, 4)))

\* a bundle next to a loose executable
OldMixed ==
    EmptyTree
    @@ (<<"A.app">> :> Dir(Oct(7, 5, 5)))
    @@ (<<"A.app", "app">> :> File("v1", Oct(7, 5, 5)))
    @@ (<<"tool.exe">> :> File("v1", Oct(7, 5, 5)))

\* the staged version: data "v2"
NewPlain ==
    EmptyTree
    @@ (<<"readme">> :> File("v2", Oct(6, 4, 4)))
    @@ (<<"bin">> :> Dir(Oct(7, 5, 5)))
    @@ (<<"bin", "app">> :> File("v2", Oct(7, 5, 5)))
NewBundle ==
    EmptyTree
    @@ (<<"A.app">> :> Dir(Oct(7, 5, 5)))
    @@ (<<"A.app", "app">> :> File("v2", Oct(7, 5, 5)))
    @@ (<<"readme">> :> File("v2", Oct(6, 4, 4)))
\* one file of the new version cannot be read
NewUnreadable ==
    EmptyTree
    @@ (<<"app">> :> File("v2", Oct(7, 5, 5)))
    @@ (<<"readme">> :> File("v2", Oct(2, 0, 0)))
NewFlat ==
    EmptyTree
    @@ (<<"lib">> :> Dir(Oct(7, 0, 0)))
    @@ (<<"tool.exe">> :> File("v2", Oct(7, 5, 5)))

\* two executables, the second of them the one --app-name asks for
NewTools ==
    EmptyTree
    @@ (<<"setup.exe">> :> File("v2", Oct(7, 5, 5)))
    @@ (<<"tool.exe">> :> File("v2", Oct(7, 5, 5)))

\* a bundle container with a second bundle inside an ordinary subdirectory
OldNested ==
    EmptyTree
    @@ (<<"A.app">> :> Dir(Oct(7, 5, 5)))
    @@ (<<"A.app", "app">> :> File("v1", Oct(7, 5, 5)))
    @@ (<<"lib">> :> Dir(Oct(7, 5, 5)))
    @@ (<<"lib", "A.app">> :> Dir(Oct(7, 5, 5)))
    @@ (<<"lib", "A.app", "app">> :> File("v1", Oct(7, 5, 5)))
NewNested ==
    EmptyTree
    @@ (<<"A.app">> :> Dir(Oct(7, 5, 5)))
    @@ (<<"A.app", "app">> :> File("v2", Oct(7, 5, 5)))
    @@ (<<"lib">> :> Dir(Oct(7, 5, 5)))
    @@ (<<"lib", "A.app">> :> Dir(Oct(7, 5, 5)))
    @@ (<<"lib", "A.app", "app">> :> File("v2", Oct(7, 5, 5)))

OldTrees == {OldPlain, OldBundle, OldTool, OldMixed}
NewTrees == {NewPlain, NewBundle, NewUnreadable, NewFlat}

APP == <<"app">>
STAGED == <<"staged">>

Disk(old, new) == EmptyTree @@ Place(old, APP) @@ Place(new, STAGED)

\* [fs, current, new]: two separate directories
SeparateCalls ==
    {[fs |-> Disk(o, n), current |-> APP, new |-> STAGED] :
        o \in OldTrees, n \in NewTrees}
\* a single file or a bare bundle passed as an argument
OddArgumentCalls ==
    {[fs |-> Disk(OldBundle, NewBundle), current |-> c, new |-> n] :
        c \in {APP, Join(APP, "readme"), Join(APP, "A.app")},
        n \in {STAGED, Join(STAGED, "readme"), Join(STAGED, "A.app")}}
\* the two arguments are the same directory, or one lies inside the other
OverlappingCalls ==
    {[fs |-> Disk(OldPlain, NewPlain), current |-> APP, new |-> APP],
     [fs |-> Disk(OldPlain, NewPlain), current |-> APP, new |-> Join(APP, "bin")],
     [fs |-> Disk(OldPlain, NewPlain), current |-> Join(STAGED, "bin"), new |-> STAGED],
     [fs |-> Disk(OldBundle, NewBundle), current |-> APP, new |-> Join(APP, "A.app")]}

\* an argument that does not exist
MissingCalls ==
    {[fs |-> Disk(OldPlain, NewPlain), current |-> APP, new |-> <<"missing">>],
     [fs |-> Disk(OldPlain, NewPlain), current |-> <<"missing">>, new |-> STAGED]}

\* a new version with more than one executable
ToolsCalls ==
    {[fs |-> Disk(OldTool, NewTools), current |-> APP, new |-> STAGED]}

\* bundles below the first level of the two directories
NestedCalls ==
    {[fs |-> Disk(OldNested, NewNested), current |-> APP, new |-> STAGED]}

Calls ==
    SeparateCalls \cup OddArgumentCalls \cup OverlappingCalls \cup MissingCalls
    \cup ToolsCalls \cup NestedCalls

Platforms ==
    {[goos |-> "darwin", privileged |-> FALSE],
     [goos |-> "darwin", privileged |-> TRUE],
     [goos |-> "linux", privileged |-> FALSE],
     [goos |-> "linux", privileged |-> TRUE],
     [goos |-> "windows", privileged |-> FALSE]}

\* how the engine is entered: by a call of atomicReplace on its own, by a
\* run of main with a PID and an optional application name, or by a call of
\* AtomUpdater.update() from the running application (pid: process.pid)
Runs ==
    {[mainPc |-> "direct", pid |-> "gone", appName |-> ""]}
    \cup {[mainPc |-> "validate", pid |-> p, appName |-> a] :
            p \in {"running", "gone"}, a \in {"", "app"}}
    \cup {[mainPc |-> "validate", pid |-> "gone", appName |-> a] :
            a \in {"tool.exe", "TOOL"}}
    \cup {[mainPc |-> "update", pid |-> "running", appName |-> ""]}

Init ==
    \E c \in Calls, pl \in Platforms, run \in Runs :
        /\ goos = pl.goos
        /\ privileged = pl.privileged
        /\ fs = c.fs
        /\ fs0 = c.fs
        /\ currentPath = c.current
        /\ newPath = c.new
        /\ pc = IF run.mainPc = "direct" THEN "atomicReplace" ELSE "idle"
        /\ mainPc = run.mainPc
        /\ pid = run.pid
        /\ appName = run.appName
        /\ launched = "no"
        /\ launchedPath = <<>>
        /\ launchedDir = <<>>
        /\ exitCode = "running"
        /\ order = <<>>
        /\ result = "none"
        /\ clock = Epoch
        /\ attempts = <<>>
        /\ variant = "none"
        /\ stack = <<>>
        /\ deferred = <<>>
        /\ err = "pending"
        /\ rollbackErr = FALSE
        /\ cleanupErr = FALSE
        /\ currentType = "unknown"
        /\ newType = "unknown"
        /\ faults = 0
        /\ lastOps = {}

(***************************************************************************)
(* The engine.  A frame of the stack is one directory loop of the code:    *)
(* fn names the function, src and dst are its two directories, todo the    *)
(* entries of its os.ReadDir it has not handled yet, stage the position    *)
(* inside the handling of the first of them.                               *)
(***************************************************************************)
Frame(fn, src, dst, todo) ==
    [fn |-> fn, src |-> src, dst |-> dst, todo |-> todo, stage |-> ""]

Top(s) == s[Len(s)]
Pop(s) == SubSeq(s, 1, Len(s) - 1)
\* the top frame with its first entry done
Next1(s) == [s EXCEPT ![Len(s)].todo = Tail(@), ![Len(s)].stage = ""]
SetStage(s, st) == [s EXCEPT ![Len(s)].stage = st]

\* loops that have nothing left return to their caller; a finished
\* moveDirectoryContents stays, its caller still removes the moved directory
RECURSIVE Unwind(_)
Unwind(s) ==
    IF s # <<>> /\ Top(s).todo = <<>> /\ Top(s).fn # "moveDirectoryContents"
    THEN Unwind(Pop(s))
    ELSE s

\* a backup directory made next to currentPath: a variant C37 must tell from
\* the directory of the code
tempBackupDir_Sibling == Join(Parent(currentPath), BackupName)

tempBackupDir == Join(currentPath, BackupName)

Op(name, path) == [op |-> name, path |-> path]

\* the result of one step: ok, the filesystem and the stack after it, the
\* calls it made, and the defer it registered (<<>> when none)
Out(ok, f, s, ops) == [ok |-> ok, fs |-> f, stack |-> s, ops |-> ops, defer |-> <<>>]

\* a backup loop that leaves the subdirectories where they are: a variant
\* C27 must tell from the loop of the code
EntriesToMove_FilesOnly(f, dir) ==
    SelectSeq(ReadDir(f, dir), LAMBDA e : e.name # BackupName /\ ~e.isDir)

\* the entries of dir without the backup directory (the loops skip it by name)
EntriesToMove(f, dir) ==
    SelectSeq(ReadDir(f, dir), LAMBDA e : e.name # BackupName)

\* one step of moveContentsToBackup, moveAppBundleDirectoryContents or
\* moveDirectoryContents
MoveStepOut(f, s, fault) ==
    LET top == Top(s) IN
    IF top.todo = <<>>
    THEN \* moveDirectoryContents returned: the caller removes the directory
         LET up == Pop(s)
             target == Join(Top(up).src, Head(Top(up).todo).name)
             r == Try(fault, f, RemoveAll(f, target))
         IN Out(r.ok, r.fs, Next1(up), {Op("RemoveAll", target)})
    ELSE LET e == Head(top.todo)
             sp == Join(top.src, e.name)
             dp == Join(top.dst, e.name)
         IN
         IF e.isDir /\ top.fn = "moveAppBundleDirectoryContents" /\ HasSuffixApp(e.name)
         THEN LET r == Try(fault, f, Rename(f, sp, dp))
              IN Out(r.ok, r.fs, Next1(s), {Op("Rename", sp), Op("Rename", dp)})
         ELSE IF e.isDir
         THEN IF ~StatOk(f, sp) THEN Out(FALSE, f, s, {Op("Stat", sp)})
              ELSE LET m == Try(fault, f, Mkdir(f, dp, f[sp].mode))
                       ops == {Op("Stat", sp), Op("Mkdir", dp), Op("ReadDir", sp)}
                   IN IF ~m.ok \/ ~CanListDir(m.fs, sp) THEN Out(FALSE, m.fs, s, ops)
                      ELSE Out(TRUE, m.fs,
                               Append(s, Frame("moveDirectoryContents", sp, dp,
                                               ReadDir(m.fs, sp))),
                               ops)
         ELSE LET r == Try(fault, f, Rename(f, sp, dp))
              IN Out(r.ok, r.fs, Next1(s), {Op("Rename", sp), Op("Rename", dp)})

\* an entry that takes a source that is not there for an empty tree: a
\* variant C38 must tell from the function of the code
EnterTree_MissingIsEmpty(fn, f, s, src, dst, fault) ==
    IF ~StatOk(f, src) THEN Out(TRUE, f, s, {Op("Stat", src)})
    ELSE LET m == Try(fault, f, MkdirAll(f, dst, f[src].mode))
             ops == {Op("Stat", src), Op("MkdirAll", dst), Op("ReadDir", src)}
         IN IF ~m.ok \/ ~IsDir(m.fs, src) \/ ~CanListDir(m.fs, src)
            THEN Out(FALSE, m.fs, s, ops)
            ELSE Out(TRUE, m.fs, Append(s, Frame(fn, src, dst, ReadDir(m.fs, src))), ops)

\* copyDirectoryTree(src, dst) and copyAppBundleDirectoryTree(src, dst) up
\* to the first entry: os.Stat(src), os.MkdirAll(dst, srcInfo.Mode()), the
\* listing of src (in copyDirectoryTree by WalkDir, whose callback on the
\* root finds dst made already); s is the stack of the caller
EnterTree(fn, f, s, src, dst, fault) ==
    IF ~StatOk(f, src) THEN Out(FALSE, f, s, {Op("Stat", src)})
    ELSE LET m == Try(fault, f, MkdirAll(f, dst, f[src].mode))
             ops == {Op("Stat", src), Op("MkdirAll", dst), Op("ReadDir", src)}
         IN IF ~m.ok \/ ~IsDir(m.fs, src) \/ ~CanListDir(m.fs, src)
            THEN Out(FALSE, m.fs, s, ops)
            ELSE Out(TRUE, m.fs, Append(s, Frame(fn, src, dst, ReadDir(m.fs, src))), ops)

EnterCopyDirectoryTree(f, s, src, dst, fault) ==
    EnterTree("copyDirectoryTree", f, s, src, dst, fault)

\* one step of the WalkDir callback of copyDirectoryTree
WalkStepOut(f, s, fault) ==
    LET top == Top(s)
        e == Head(top.todo)
        sp == Join(top.src, e.name)
        dp == Join(top.dst, e.name)
    IN
    IF e.isDir
    THEN \* os.MkdirAll(destPath, d.Type()): d.Type() has no permission bits
         LET m == Try(fault, f, MkdirAll(f, dp, 0))
             ops == {Op("MkdirAll", dp), Op("ReadDir", sp)}
         IN IF ~m.ok \/ ~CanListDir(m.fs, sp) THEN Out(FALSE, m.fs, s, ops)
            ELSE Out(TRUE, m.fs,
                     Append(Next1(s), Frame("copyDirectoryTree", sp, dp, ReadDir(m.fs, sp))),
                     ops)
    ELSE LET r == copyFile(f, sp, dp, fault)
         IN Out(r.ok, r.fs, Next1(s), {Op("copyFile", sp), Op("copyFile", dp)})

\* a failed substitution that leaves <name>.new behind: a variant C29 must
\* tell from the function of the code
DiscardTemp_Keeps(f, tmp) == f

\* os.RemoveAll(tempDstPath) on the failure of a step of the substitution
DiscardTemp(f, tmp) == RemoveAll(f, tmp).fs

\* one step of the loop of copyAppBundleDirectoryTree
AppCopyStepOut(f, s, fault) ==
    LET top == Top(s)
        e == Head(top.todo)
        sp == Join(top.src, e.name)
        dp == Join(top.dst, e.name)
    IN
    IF e.isDir /\ HasSuffixApp(e.name)
    THEN LET tmp == Join(top.dst, AddSuffix(e.name, ".new"))
             old == Join(top.dst, AddSuffix(e.name, ".old"))
         IN
         CASE top.stage = "" ->
                \* remove a stale <name>.new, copy the bundle to <name>.new
                LET clean == RemoveAll(f, tmp).fs
                    d == copyAppBundleSystem(clean, sp, tmp, fault)
                    ops == {Op("RemoveAll", tmp), Op("ditto", sp), Op("ditto", tmp)}
                IN IF ~d.ok THEN Out(FALSE, DiscardTemp(d.fs, tmp), s, ops)
                   ELSE Out(TRUE, d.fs,
                            SetStage(s, IF StatOk(d.fs, dp) THEN "old" ELSE "final"), ops)
           [] top.stage = "old" ->
                \* the destination exists: move it to <name>.old
                LET clean == RemoveAll(f, old).fs
                    r == Try(fault, clean, Rename(clean, dp, old))
                    ops == {Op("RemoveAll", old), Op("Rename", dp), Op("Rename", old)}
                IN IF ~r.ok THEN Out(FALSE, DiscardTemp(r.fs, tmp), s, ops)
                   ELSE Out(TRUE, r.fs, SetStage(s, "final"), ops)
           [] top.stage = "final" ->
                LET r == Try(fault, f, Rename(f, tmp, dp))
                    back == IF StatOk(f, old) THEN Rename(f, old, dp).fs ELSE f
                    ops == {Op("Rename", tmp), Op("Rename", dp)}
                IN IF ~r.ok THEN Out(FALSE, DiscardTemp(back, tmp), s, ops)
                   ELSE Out(TRUE, r.fs, Next1(s), ops)
    ELSE IF e.isDir
    THEN EnterCopyDirectoryTree(f, Next1(s), sp, dp, fault)
    ELSE LET r == copyFile(f, sp, dp, fault)
         IN Out(r.ok, r.fs, Next1(s), {Op("copyFile", sp), Op("copyFile", dp)})

\* one step of restoreFromBackup or restoreDirectoryContents
RestoreStepOut(f, s, fault) ==
    LET top == Top(s)
        e == Head(top.todo)
        sp == Join(top.src, e.name)
        dp == Join(top.dst, e.name)
    IN
    IF e.isDir /\ top.fn = "restoreAppBundleDirectoryBackup" /\ HasSuffixApp(e.name)
    THEN LET currentBackup == Join(top.dst, AddSuffix(e.name, ".current")) IN
         IF top.stage = "" /\ StatOk(f, dp)
         THEN \* the destination exists: move it aside and register the defer
              LET clean == RemoveAll(f, currentBackup).fs
                  r == Try(fault, clean, Rename(clean, dp, currentBackup))
                  ops == {Op("RemoveAll", currentBackup), Op("Rename", dp),
                          Op("Rename", currentBackup)}
              IN IF ~r.ok THEN Out(FALSE, r.fs, s, ops)
                 ELSE [Out(TRUE, r.fs, SetStage(s, "aside"), ops)
                         EXCEPT !.defer = <<dp>>]
         ELSE LET r == Try(fault, f, Rename(f, sp, dp))
              IN Out(r.ok, r.fs, Next1(s), {Op("Rename", sp), Op("Rename", dp)})
    ELSE IF e.isDir /\ top.fn # "restoreDirectoryContents"
    THEN \* restoreFromBackup: os.MkdirAll(originalPath, entry.Type());
         \* restoreAppBundleDirectoryBackup: os.MkdirAll(originalPath, 0755)
         LET perm == IF top.fn = "restoreFromBackup" THEN 0 ELSE Oct(7, 5, 5)
             m == Try(fault, f, MkdirAll(f, dp, perm))
             ops == {Op("MkdirAll", dp), Op("ReadDir", sp)}
         IN IF ~m.ok \/ ~CanListDir(m.fs, sp) THEN Out(FALSE, m.fs, s, ops)
            ELSE Out(TRUE, m.fs,
                     Append(Next1(s), Frame("restoreDirectoryContents", sp, dp,
                                            ReadDir(m.fs, sp))),
                     ops)
    ELSE IF e.isDir
    THEN IF ~StatOk(f, sp) THEN Out(FALSE, f, s, {Op("Stat", sp)})
         ELSE LET m == Try(fault, f, Mkdir(f, dp, f[sp].mode))
                  ops == {Op("Stat", sp), Op("Mkdir", dp), Op("ReadDir", sp)}
              IN IF ~m.ok \/ ~CanListDir(m.fs, sp) THEN Out(FALSE, m.fs, s, ops)
                 ELSE Out(TRUE, m.fs,
                          Append(Next1(s), Frame("restoreDirectoryContents", sp, dp,
                                                 ReadDir(m.fs, sp))),
                          ops)
    ELSE LET r == Try(fault, f, Rename(f, sp, dp))
         IN Out(r.ok, r.fs, Next1(s), {Op("Rename", sp), Op("Rename", dp)})

(***************************************************************************)
(* The actions: atomicReplace, step by step.                               *)
(***************************************************************************)
\* the faults a step may suffer
FaultChoices(kinds) == IF faults < MaxFaults THEN kinds ELSE {"none"}
Count(fault) == IF fault = "none" THEN 0 ELSE 1

Frozen == UNCHANGED <<goos, privileged, fs0, currentPath, newPath, mainVars>>

Return(e) == pc' = "done" /\ err' = e

\* atomicReplace making its backup directory before it classifies: a variant
\* C11 must tell from the step of the code
Classify_BackupFirst ==
    /\ pc = "atomicReplace"
    /\ LET ct == detectApplicationType(fs, currentPath)
           nt == detectApplicationType(fs, newPath)
       IN /\ currentType' = IF ct.ok THEN ct.type ELSE "unknown"
          /\ newType' = IF ct.ok /\ nt.ok THEN nt.type ELSE "unknown"
          /\ IF ~ct.ok \/ ~nt.ok THEN Return("DetectFailed")
             ELSE IF ~areTypesCompatible(ct.type, nt.type) THEN Return("TypeMismatch")
             ELSE IF ct.type \in {"SingleFile", "MacAppBundle"}
                  THEN Return("UnsupportedType")
             ELSE pc' = "atomicDirectoryReplace" /\ err' = err
    /\ fs' = MkdirAll(fs, tempBackupDir, Oct(7, 5, 5)).fs
    /\ lastOps' = {Op("Stat", currentPath), Op("MkdirAll", tempBackupDir)}
    /\ Frozen
    /\ UNCHANGED <<variant, stack, deferred, rollbackErr, cleanupErr, faults>>

\* atomicReplace: classification, compatibility, the switch on currentType
Classify ==
    /\ pc = "atomicReplace"
    /\ LET ct == detectApplicationType(fs, currentPath)
           nt == detectApplicationType(fs, newPath)
       IN /\ currentType' = IF ct.ok THEN ct.type ELSE "unknown"
          /\ newType' = IF ct.ok /\ nt.ok THEN nt.type ELSE "unknown"
          /\ IF ~ct.ok \/ ~nt.ok THEN Return("DetectFailed")
             ELSE IF ~areTypesCompatible(ct.type, nt.type) THEN Return("TypeMismatch")
             ELSE IF ct.type \in {"SingleFile", "MacAppBundle"}
                  THEN Return("UnsupportedType")
             ELSE pc' = "atomicDirectoryReplace" /\ err' = err
          /\ lastOps' = {Op("Stat", currentPath)}
                        \cup (IF ct.ok THEN {Op("Stat", newPath)} ELSE {})
    /\ Frozen
    /\ UNCHANGED <<fs, variant, stack, deferred, rollbackErr, cleanupErr, faults>>

\* atomicDirectoryReplace: the choice of the mover/copier pair
Dispatch ==
    /\ pc = "atomicDirectoryReplace"
    /\ LET ct == detectApplicationType(fs, currentPath)
       IN IF ~ct.ok THEN Return("DetectFailed") /\ variant' = variant
          ELSE /\ variant' = IF ct.type = "MacAppBundleDirectory" THEN "bundle" ELSE "plain"
               /\ pc' = "createBackup"
               /\ err' = err
    /\ lastOps' = {Op("Stat", currentPath)}
    /\ Frozen
    /\ UNCHANGED <<fs, stack, deferred, rollbackErr, cleanupErr, currentType, newType,
                   faults>>

\* Step 1, and the os.ReadDir that opens step 2
CreateBackup ==
    /\ pc = "createBackup"
    /\ \E fault \in FaultChoices({"none", "fail"}) :
        LET m == Try(fault, fs, MkdirAll(fs, tempBackupDir, Oct(7, 5, 5)))
            fn == IF variant = "bundle" THEN "moveAppBundleDirectoryContents"
                  ELSE "moveContentsToBackup"
            s == Unwind(<<Frame(fn, currentPath, tempBackupDir,
                                EntriesToMove(m.fs, currentPath))>>)
        IN /\ fs' = m.fs
           /\ faults' = faults + Count(fault)
           /\ IF ~m.ok THEN Return("CreateBackupFailed") /\ stack' = <<>>
              ELSE IF ~CanListDir(m.fs, currentPath)
                   THEN pc' = "backupFailed" /\ stack' = <<>> /\ err' = err
              ELSE /\ stack' = s
                   /\ pc' = IF s = <<>> THEN "copy" ELSE "backup"
                   /\ err' = err
    /\ lastOps' = {Op("MkdirAll", tempBackupDir), Op("ReadDir", currentPath)}
    /\ Frozen
    /\ UNCHANGED <<variant, deferred, rollbackErr, cleanupErr, currentType, newType>>

\* Step 2: one entry moved into the backup directory
BackupStep ==
    /\ pc = "backup"
    /\ \E fault \in FaultChoices({"none", "fail"}) :
        LET out == MoveStepOut(fs, stack, fault)
            s == Unwind(out.stack)
        IN /\ fs' = out.fs
           /\ faults' = faults + Count(fault)
           /\ lastOps' = out.ops
           /\ IF ~out.ok THEN pc' = "backupFailed" /\ stack' = <<>>
              ELSE stack' = s /\ pc' = IF s = <<>> THEN "copy" ELSE "backup"
    /\ Frozen
    /\ UNCHANGED <<variant, deferred, err, rollbackErr, cleanupErr, currentType, newType>>

\* a failed Step 2 that goes on to the rollback of Step 3: a variant C35
\* must tell from the step of the code
BackupFailed_Restores ==
    /\ pc = "backupFailed"
    /\ pc' = "copyFailed"
    /\ lastOps' = {}
    /\ Frozen
    /\ UNCHANGED <<fs, faults, err, variant, stack, deferred, rollbackErr, cleanupErr,
                   currentType, newType>>

\* Step 2 failed: "remove the backup directory we created"
BackupFailed ==
    /\ pc = "backupFailed"
    /\ \E fault \in FaultChoices({"none", "fail"}) :
        /\ fs' = Try(fault, fs, RemoveAll(fs, tempBackupDir)).fs
        /\ faults' = faults + Count(fault)
    /\ lastOps' = {Op("RemoveAll", tempBackupDir)}
    /\ Return("BackupFailed")
    /\ Frozen
    /\ UNCHANGED <<variant, stack, deferred, rollbackErr, cleanupErr, currentType, newType>>

\* Step 3 starts: copyDirectoryTree or copyAppBundleDirectoryTree is entered
BeginCopy ==
    /\ pc = "copy"
    /\ \E fault \in FaultChoices({"none", "fail"}) :
        LET fn == IF variant = "bundle" THEN "copyAppBundleDirectoryTree"
                  ELSE "copyDirectoryTree"
            out == EnterTree(fn, fs, <<>>, newPath, currentPath, fault)
            s == Unwind(out.stack)
        IN /\ fs' = out.fs
           /\ faults' = faults + Count(fault)
           /\ lastOps' = out.ops
           /\ IF ~out.ok THEN pc' = "copyFailed" /\ stack' = <<>>
              ELSE stack' = s /\ pc' = IF s = <<>> THEN "cleanup" ELSE "copying"
    /\ Frozen
    /\ UNCHANGED <<variant, deferred, err, rollbackErr, cleanupErr, currentType, newType>>

\* the faults of a copy step: a call that fails at once, and for copyFile
\* and the ditto command a failure after a part was written
CopyFaults(s) ==
    LET top == Top(s)
        e == Head(top.todo)
    IN IF e.isDir /\ ~(/\ top.fn = "copyAppBundleDirectoryTree"
                       /\ HasSuffixApp(e.name)
                       /\ top.stage = "")
       THEN {"none", "fail"}
       ELSE {"none", "fail", "partial"}

\* Step 3: one entry of the new version copied
CopyStep ==
    /\ pc = "copying"
    /\ \E fault \in FaultChoices(CopyFaults(stack)) :
        LET out == IF Top(stack).fn = "copyDirectoryTree"
                   THEN WalkStepOut(fs, stack, fault)
                   ELSE AppCopyStepOut(fs, stack, fault)
            s == Unwind(out.stack)
        IN /\ fs' = out.fs
           /\ faults' = faults + Count(fault)
           /\ lastOps' = out.ops
           /\ IF ~out.ok THEN pc' = "copyFailed" /\ stack' = <<>>
              ELSE stack' = s /\ pc' = IF s = <<>> THEN "cleanup" ELSE "copying"
    /\ Frozen
    /\ UNCHANGED <<variant, deferred, err, rollbackErr, cleanupErr, currentType, newType>>

\* a rollback after which the copy is tried again: a variant C39 must tell
\* from the return of the code
EndRestore_Retries(defers) ==
    IF defers # <<>> THEN pc' = "deferred" /\ err' = err
    ELSE pc' = "copy" /\ err' = err

\* where the restore goes when its loop has ended: to the defers of
\* restoreAppBundleDirectoryBackup, or back to the caller
EndRestore(defers) ==
    IF defers # <<>> THEN pc' = "deferred" /\ err' = err
    ELSE Return("CopyFailed")

\* a rollback that always takes the plain restore: a variant C28 must tell
\* from the step of the code
BeginRestore_Plain ==
    /\ pc = "copyFailed"
    /\ LET s == Unwind(<<Frame("restoreFromBackup", tempBackupDir, currentPath,
                               ReadDir(fs, tempBackupDir))>>)
       IN IF ~CanListDir(fs, tempBackupDir)
          THEN rollbackErr' = TRUE /\ stack' = <<>> /\ Return("CopyFailed")
          ELSE /\ rollbackErr' = FALSE
               /\ stack' = s
               /\ IF s = <<>> THEN Return("CopyFailed")
                  ELSE pc' = "restoring" /\ err' = err
    /\ lastOps' = {Op("ReadDir", tempBackupDir)}
    /\ Frozen
    /\ UNCHANGED <<fs, variant, deferred, cleanupErr, currentType, newType, faults>>

\* Step 3 failed: restoreFromBackup or restoreAppBundleDirectoryBackup is entered
BeginRestore ==
    /\ pc = "copyFailed"
    /\ LET fn == IF variant = "bundle" THEN "restoreAppBundleDirectoryBackup"
                 ELSE "restoreFromBackup"
           s == Unwind(<<Frame(fn, tempBackupDir, currentPath, ReadDir(fs, tempBackupDir))>>)
       IN IF ~CanListDir(fs, tempBackupDir)
          THEN rollbackErr' = TRUE /\ stack' = <<>> /\ Return("CopyFailed")
          ELSE /\ rollbackErr' = FALSE
               /\ stack' = s
               /\ IF s = <<>> THEN Return("CopyFailed")
                  ELSE pc' = "restoring" /\ err' = err
    /\ lastOps' = {Op("ReadDir", tempBackupDir)}
    /\ Frozen
    /\ UNCHANGED <<fs, variant, deferred, cleanupErr, currentType, newType, faults>>

\* the restore: one entry moved back from the backup directory
RestoreStep ==
    /\ pc = "restoring"
    /\ \E fault \in FaultChoices({"none", "fail"}) :
        LET out == RestoreStepOut(fs, stack, fault)
            s == Unwind(out.stack)
            defers == out.defer \o deferred
        IN /\ fs' = out.fs
           /\ faults' = faults + Count(fault)
           /\ lastOps' = out.ops
           /\ deferred' = defers
           /\ IF ~out.ok
              THEN rollbackErr' = TRUE /\ stack' = <<>> /\ EndRestore(defers)
              ELSE /\ rollbackErr' = FALSE
                   /\ stack' = s
                   /\ IF s = <<>> THEN EndRestore(defers)
                      ELSE pc' = "restoring" /\ err' = err
    /\ Frozen
    /\ UNCHANGED <<variant, cleanupErr, currentType, newType>>

\* a defer of restoreAppBundleDirectoryBackup runs, last registered first
RunDeferred ==
    /\ pc = "deferred"
    /\ LET originalPath == Head(deferred)
           currentBackup == Join(Parent(originalPath),
                                 AddSuffix(Base(originalPath), ".current"))
       IN /\ fs' = IF CanReach(fs, originalPath) /\ ~Exists(fs, originalPath)
                   THEN RemoveAll(fs, currentBackup).fs
                   ELSE Rename(fs, currentBackup, originalPath).fs
          /\ lastOps' = {Op("Stat", originalPath), Op("defer", currentBackup)}
    /\ deferred' = Tail(deferred)
    /\ EndRestore(Tail(deferred))
    /\ Frozen
    /\ UNCHANGED <<variant, stack, rollbackErr, cleanupErr, currentType, newType, faults>>

\* Step 4 without the removal: a variant C5 must tell from the step of the code
Cleanup_NoRemove ==
    /\ pc = "cleanup"
    /\ lastOps' = {}
    /\ Return("nil")
    /\ Frozen
    /\ UNCHANGED <<fs, variant, stack, deferred, rollbackErr, cleanupErr, currentType,
                   newType, faults>>

\* Step 4 turning a failed removal into a failure of the call: a variant C15
\* must tell from the step of the code
Cleanup_FailsCall ==
    /\ pc = "cleanup"
    /\ \E fault \in FaultChoices({"none", "fail"}) :
        LET r == Try(fault, fs, RemoveAll(fs, tempBackupDir))
        IN /\ fs' = r.fs
           /\ cleanupErr' = ~r.ok
           /\ faults' = faults + Count(fault)
           /\ Return(IF r.ok THEN "nil" ELSE "CleanupFailed")
    /\ lastOps' = {Op("RemoveAll", tempBackupDir)}
    /\ Frozen
    /\ UNCHANGED <<variant, stack, deferred, rollbackErr, currentType, newType>>

\* Step 4: the backup directory is removed; a failure is only logged
Cleanup ==
    /\ pc = "cleanup"
    /\ \E fault \in FaultChoices({"none", "fail"}) :
        LET r == Try(fault, fs, RemoveAll(fs, tempBackupDir))
        IN /\ fs' = r.fs
           /\ cleanupErr' = ~r.ok
           /\ faults' = faults + Count(fault)
    /\ lastOps' = {Op("RemoveAll", tempBackupDir)}
    /\ Return("nil")
    /\ Frozen
    /\ UNCHANGED <<variant, stack, deferred, rollbackErr, currentType, newType>>

(***************************************************************************)
(* The actions of main.                                                    *)
(***************************************************************************)
\* the engine's variables, which main itself never writes
Idle ==
    UNCHANGED <<goos, privileged, fs, fs0, currentPath, newPath, variant, stack,
                deferred, err, rollbackErr, cleanupErr, currentType, newType, lastOps,
                result, nameVars>>

\* log.Fatalf (exit status 1) or a runtime panic (exit status 2)
Exit(code) == mainPc' = "exit" /\ exitCode' = code

\* what the validation of one path ends in: os.Stat, info.IsDir()
ValidatePath(f, p) ==
    IF CanReach(f, p) /\ ~Exists(f, p) THEN "fatal"
    ELSE IF ~StatOk(f, p) THEN "panic"
    ELSE IF ~IsDir(f, p) THEN "fatal"
    ELSE "ok"

\* main validating config.CurrentPath only: a variant C23 must tell from the
\* step of the code
Validate_CurrentOnly ==
    /\ mainPc = "validate"
    /\ order' = Append(order, "validate")
    /\ LET c == ValidatePath(fs, currentPath)
       IN IF c # "ok" THEN Exit(IF c = "panic" THEN "2" ELSE "1")
          ELSE IF PathHasSuffixApp(currentPath) THEN Exit("1")
          ELSE mainPc' = "wait" /\ exitCode' = exitCode
    /\ Idle
    /\ UNCHANGED <<pc, faults, pid, appName, launched, launchedPath, launchedDir>>

\* main: the validation of config.CurrentPath and config.NewPath
Validate ==
    /\ mainPc = "validate"
    /\ order' = Append(order, "validate")
    /\ LET c == ValidatePath(fs, currentPath)
           n == ValidatePath(fs, newPath)
       IN IF c # "ok" THEN Exit(IF c = "panic" THEN "2" ELSE "1")
          ELSE IF n # "ok" THEN Exit(IF n = "panic" THEN "2" ELSE "1")
          ELSE IF PathHasSuffixApp(currentPath) \/ PathHasSuffixApp(newPath) THEN Exit("1")
          ELSE mainPc' = "wait" /\ exitCode' = exitCode
    /\ Idle
    /\ UNCHANGED <<pc, faults, pid, appName, launched, launchedPath, launchedDir>>

\* waitForProcessExit(pid) returns.  On Windows os.FindProcess fails for a
\* PID that does not exist and process.Wait blocks until the process has
\* exited; elsewhere os.FindProcess always succeeds and process.Wait fails
\* at once for a process that is not a child of the updater.
waitForProcessExit ==
    /\ mainPc = "wait"
    /\ goos = "windows" => pid = "gone"
    /\ order' = Append(order, "wait")
    /\ mainPc' = "replace"
    /\ Idle
    /\ UNCHANGED <<pc, faults, pid, appName, launched, launchedPath, launchedDir, exitCode>>

\* the process config.PID names exits at a moment of its own (the caller of
\* update() not before update() is back)
ProcessExits ==
    /\ mainPc \notin {"direct", "exit", "update"}
    /\ pid = "running"
    /\ pid' = "gone"
    /\ Idle
    /\ UNCHANGED <<pc, faults, mainPc, appName, launched, launchedPath, launchedDir, exitCode, order>>

\* main: Step 2, atomicReplace is called
CallAtomicReplace ==
    /\ mainPc = "replace"
    /\ mainPc' = "atomicReplace"
    /\ pc' = "atomicReplace"
    /\ order' = Append(order, "atomicReplace")
    /\ Idle
    /\ UNCHANGED <<faults, pid, appName, launched, launchedPath, launchedDir, exitCode>>

\* main launching although atomicReplace returned an error: a variant C13
\* must tell from the step of the code
ReplaceFailed_Launches ==
    /\ mainPc = "atomicReplace"
    /\ pc = "done"
    /\ err # "nil"
    /\ order' = Append(order, "launchApplication")
    /\ launched' = "started"
    /\ Exit("1")
    /\ Idle
    /\ UNCHANGED <<pc, faults, pid, appName, launchedPath, launchedDir>>

\* main: atomicReplace returned an error, log.Fatalf
ReplaceFailed ==
    /\ mainPc = "atomicReplace"
    /\ pc = "done"
    /\ err # "nil"
    /\ Exit("1")
    /\ Idle
    /\ UNCHANGED <<pc, faults, pid, appName, launched, launchedPath, launchedDir, order>>

\* main putting the old version back when the launch fails: a variant C14
\* must tell from the step of the code
Launch_RollsBack ==
    /\ mainPc = "atomicReplace"
    /\ pc = "done"
    /\ err = "nil"
    /\ order' = Append(order, "launchApplication")
    /\ \E fault \in FaultChoices({"none", "fail"}) :
        LET l == launchApplication(fs, currentPath, appName)
            started == l.ok /\ fault = "none" /\ CanReach(fs, l.path)
        IN /\ launched' = IF started THEN "started" ELSE "failed"
           /\ launchedPath' = IF started THEN l.path ELSE <<>>
           /\ launchedDir' = IF started THEN launchWorkDir(fs, currentPath) ELSE <<>>
           /\ faults' = faults + Count(fault)
           /\ fs' = IF started THEN fs ELSE fs0
    /\ Exit("0")
    /\ UNCHANGED <<goos, privileged, fs0, currentPath, newPath, variant, stack,
                   deferred, err, rollbackErr, cleanupErr, currentType, newType, lastOps,
                   result, nameVars>>
    /\ UNCHANGED <<pc, pid, appName>>

\* main: Step 3, launchApplication; its error is only logged
Launch ==
    /\ mainPc = "atomicReplace"
    /\ pc = "done"
    /\ err = "nil"
    /\ order' = Append(order, "launchApplication")
    /\ \E fault \in FaultChoices({"none", "fail"}) :
        LET l == launchApplication(fs, currentPath, appName)
            started == l.ok /\ fault = "none" /\ CanReach(fs, l.path)
        IN /\ launched' = IF started THEN "started" ELSE "failed"
           /\ launchedPath' = IF started THEN l.path ELSE <<>>
           /\ launchedDir' = IF started THEN launchWorkDir(fs, currentPath) ELSE <<>>
           /\ faults' = faults + Count(fault)
    /\ Exit("0")
    /\ Idle
    /\ UNCHANGED <<pc, pid, appName>>

(***************************************************************************)
(* The Node wrapper.                                                       *)
(***************************************************************************)
\* PlatformUtils.validateDirectory and validateNotAppBundle: no exception
validDirectory(f, p) == StatOk(f, p) /\ IsDir(f, p) /\ ~PathHasSuffixApp(p)

\* update() giving its result without validating the directories: a variant
\* C25 must tell from the method of the code
update_Unvalidated ==
    /\ mainPc = "update"
    /\ \E fault \in FaultChoices({"none", "fail"}) :
        /\ faults' = faults + Count(fault)
        /\ result' = "success"
        /\ IF fault = "none" THEN mainPc' = "validate" /\ exitCode' = exitCode
           ELSE mainPc' = "exit" /\ exitCode' = "none"
    /\ UNCHANGED <<goos, privileged, fs, fs0, currentPath, newPath, variant, stack,
                   deferred, err, rollbackErr, cleanupErr, currentType, newType, lastOps>>
    /\ UNCHANGED <<pc, pid, appName, launched, launchedPath, launchedDir, order, nameVars>>

\* AtomUpdater.update(config): the directories are validated, the updater
\* is spawned detached and unref'ed, and the result is returned at once.
\* spawn() reports a failure to start by an 'error' event later, never by
\* an exception: fault = "fail" is the updater that did not start.
update ==
    /\ mainPc = "update"
    /\ \E fault \in FaultChoices({"none", "fail"}) :
        IF validDirectory(fs, currentPath) /\ validDirectory(fs, newPath)
        THEN /\ faults' = faults + Count(fault)
             /\ result' = "success"
             /\ IF fault = "none" THEN mainPc' = "validate" /\ exitCode' = exitCode
                ELSE mainPc' = "exit" /\ exitCode' = "none"
        ELSE /\ faults' = faults
             /\ result' = "threw"
             /\ mainPc' = "exit"
             /\ exitCode' = "none"
    /\ UNCHANGED <<goos, privileged, fs, fs0, currentPath, newPath, variant, stack,
                   deferred, err, rollbackErr, cleanupErr, currentType, newType, lastOps>>
    /\ UNCHANGED <<pc, pid, appName, launched, launchedPath, launchedDir, order, nameVars>>

(***************************************************************************)
(* copyAppBundleDirectoryTree called on its own, on a destination that may *)
(* hold a bundle already.                                                  *)
(***************************************************************************)
\* a destination with a bundle and with what a failed earlier attempt left
OldStale ==
    OldBundle
    @@ (<<"A.app.new">> :> Dir(Oct(7, 5, 5)))
    @@ (<<"A.app.new", "app">> :> File("part", Oct(7, 5, 5)))
    @@ (<<"A.app.old">> :> Dir(Oct(7, 5, 5)))
    @@ (<<"A.app.old", "app">> :> File("v0", Oct(7, 5, 5)))

\* [fs, src, dst] of copyAppBundleDirectoryTree(src, dst)
CopyTreeCalls ==
    {[fs |-> Disk(o, n), src |-> STAGED, dst |-> APP] :
        o \in {EmptyTree, OldBundle, OldMixed, OldNested, OldStale},
        n \in {NewBundle, NewNested}}

CopyTreeInit ==
    \E c \in CopyTreeCalls, pl \in Platforms :
        /\ goos = pl.goos
        /\ privileged = pl.privileged
        /\ fs = c.fs
        /\ fs0 = c.fs
        /\ currentPath = c.dst
        /\ newPath = c.src
        /\ pc = "copy"
        /\ variant = "bundle"
        /\ mainPc = "copyTree"
        /\ pid = "gone"
        /\ appName = ""
        /\ launched = "no"
        /\ launchedPath = <<>>
        /\ launchedDir = <<>>
        /\ exitCode = "running"
        /\ order = <<>>
        /\ result = "none"
        /\ clock = Epoch
        /\ attempts = <<>>
        /\ stack = <<>>
        /\ deferred = <<>>
        /\ err = "pending"
        /\ rollbackErr = FALSE
        /\ cleanupErr = FALSE
        /\ currentType = "unknown"
        /\ newType = "unknown"
        /\ faults = 0
        /\ lastOps = {}

\* copyAppBundleDirectoryTree returns: its error, or nil
CopyReturns ==
    /\ mainPc = "copyTree"
    /\ pc \in {"copyFailed", "cleanup"}
    /\ Return(IF pc = "copyFailed" THEN "CopyFailed" ELSE "nil")
    /\ Frozen
    /\ UNCHANGED <<fs, variant, stack, deferred, rollbackErr, cleanupErr, currentType,
                   newType, faults, lastOps>>

CopyTreeNext ==
    \/ BeginCopy
    \/ CopyStep
    \/ CopyReturns

CopyTreeSpec == CopyTreeInit /\ [][CopyTreeNext]_vars

(***************************************************************************)
(* The names of the backup directories of successive attempts.             *)
(***************************************************************************)
NameInit ==
    /\ clock \in Clocks
    /\ attempts = <<>>
    /\ goos = "linux"
    /\ privileged = FALSE
    /\ fs = Disk(OldPlain, NewPlain)
    /\ fs0 = Disk(OldPlain, NewPlain)
    /\ currentPath = APP
    /\ newPath = STAGED
    /\ pc = "idle"
    /\ variant = "none"
    /\ mainPc = "names"
    /\ pid = "gone"
    /\ appName = ""
    /\ launched = "no"
    /\ launchedPath = <<>>
    /\ launchedDir = <<>>
    /\ exitCode = "running"
    /\ order = <<>>
    /\ result = "none"
    /\ stack = <<>>
    /\ deferred = <<>>
    /\ err = "pending"
    /\ rollbackErr = FALSE
    /\ cleanupErr = FALSE
    /\ currentType = "unknown"
    /\ newType = "unknown"
    /\ faults = 0
    /\ lastOps = {}

NameFrame ==
    UNCHANGED <<goos, privileged, fs, fs0, currentPath, newPath, pc, variant, stack,
                deferred, err, rollbackErr, cleanupErr, currentType, newType, faults,
                lastOps, mainPc, pid, appName, launched, launchedPath, launchedDir, exitCode, order,
                result>>

\* time passes
Tick ==
    /\ mainPc = "names"
    /\ \E t \in Clocks : Earlier(clock, t) /\ clock' = t
    /\ attempts' = attempts
    /\ NameFrame

\* atomicDirectoryReplace names the backup directory of an attempt
NameBackup ==
    /\ mainPc = "names"
    /\ Len(attempts) < MaxAttempts
    /\ attempts' = Append(attempts, [at |-> clock, name |-> generateTempFilename(clock)])
    /\ clock' = clock
    /\ NameFrame

NameNext ==
    \/ Tick
    \/ NameBackup

NameSpec == NameInit /\ [][NameNext]_vars

(***************************************************************************)
(* atomicFileReplace, the replacement of a single file.                    *)
(***************************************************************************)
\* the installed file and the new one; the directory of the installed file
\* may be read-only, the new file may be unreadable
InstalledFile(dirMode) ==
    (<<>> :> Dir(dirMode)) @@ (<<"app">> :> File("v1", Oct(7, 5, 5)))
StagedFile(fileMode) ==
    EmptyTree @@ (<<"app">> :> File("v2", fileMode))

FileCalls ==
    {[fs |-> Disk(InstalledFile(d), StagedFile(m)),
      current |-> Join(APP, "app"), new |-> Join(STAGED, "app")] :
        d \in {Oct(7, 5, 5), Oct(5, 5, 5)}, m \in {Oct(7, 5, 5), Oct(2, 0, 0)}}

\* generateTempFilename(currentPath, "tmp") and (currentPath, "new")
tempFile == Join(Parent(currentPath), "app.tmp")
newFile == Join(Parent(currentPath), "app.new")

FileInit ==
    \E c \in FileCalls, pl \in Platforms :
        /\ goos = pl.goos
        /\ privileged = pl.privileged
        /\ fs = c.fs
        /\ fs0 = c.fs
        /\ currentPath = c.current
        /\ newPath = c.new
        /\ pc = "fileBackup"
        /\ variant = "none"
        /\ mainPc = "file"
        /\ pid = "gone"
        /\ appName = ""
        /\ launched = "no"
        /\ launchedPath = <<>>
        /\ launchedDir = <<>>
        /\ exitCode = "running"
        /\ order = <<>>
        /\ result = "none"
        /\ clock = Epoch
        /\ attempts = <<>>
        /\ stack = <<>>
        /\ deferred = <<>>
        /\ err = "pending"
        /\ rollbackErr = FALSE
        /\ cleanupErr = FALSE
        /\ currentType = "unknown"
        /\ newType = "unknown"
        /\ faults = 0
        /\ lastOps = {}

FileFrame ==
    /\ Frozen
    /\ UNCHANGED <<variant, stack, deferred, currentType, newType>>

\* the faults the rollback may suffer after a step that took the fault first
RollbackFaults(first) ==
    IF faults + Count(first) < MaxFaults THEN {"none", "fail"} ELSE {"none"}

\* Step 1: the current version is renamed to the temp file
FileBackup ==
    /\ mainPc = "file"
    /\ pc = "fileBackup"
    /\ \E fault \in FaultChoices({"none", "fail"}) :
        LET r == Try(fault, fs, Rename(fs, currentPath, tempFile))
        IN /\ fs' = r.fs
           /\ faults' = faults + Count(fault)
           /\ IF r.ok THEN pc' = "fileCopy" /\ err' = err
              ELSE Return("BackupFailed")
    /\ lastOps' = {Op("Rename", currentPath), Op("Rename", tempFile)}
    /\ FileFrame
    /\ UNCHANGED <<rollbackErr, cleanupErr>>

\* Step 2: the new version is copied to the intermediate file; when the copy
\* fails the temp file is renamed back and the error returned
FileCopy ==
    /\ mainPc = "file"
    /\ pc = "fileCopy"
    /\ \E fault \in FaultChoices({"none", "fail", "partial"}) :
        LET r == copyFile(fs, newPath, newFile, fault)
        IN IF r.ok
           THEN /\ fs' = r.fs
                /\ faults' = faults + Count(fault)
                /\ rollbackErr' = rollbackErr
                /\ pc' = "fileMove"
                /\ err' = err
           ELSE \E back \in RollbackFaults(fault) :
                LET b == Try(back, r.fs, Rename(r.fs, tempFile, currentPath))
                IN /\ fs' = b.fs
                   /\ faults' = faults + Count(fault) + Count(back)
                   /\ rollbackErr' = ~b.ok
                   /\ Return("CopyFailed")
    /\ lastOps' = {Op("copyFile", newPath), Op("copyFile", newFile)}
    /\ FileFrame
    /\ UNCHANGED cleanupErr

\* Step 3: the intermediate file is renamed to the final location; when
\* that fails the temp file is renamed back, the intermediate file removed
\* and the error returned
FileMove ==
    /\ mainPc = "file"
    /\ pc = "fileMove"
    /\ \E fault \in FaultChoices({"none", "fail"}) :
        LET r == Try(fault, fs, Rename(fs, newFile, currentPath))
        IN IF r.ok
           THEN /\ fs' = r.fs
                /\ faults' = faults + Count(fault)
                /\ rollbackErr' = rollbackErr
                /\ pc' = "fileCleanup"
                /\ err' = err
           ELSE \E back \in RollbackFaults(fault) :
                LET b == Try(back, r.fs, Rename(r.fs, tempFile, currentPath))
                IN /\ fs' = RemoveAll(b.fs, newFile).fs
                   /\ faults' = faults + Count(fault) + Count(back)
                   /\ rollbackErr' = ~b.ok
                   /\ Return("MoveFailed")
    /\ lastOps' = {Op("Rename", newFile), Op("Rename", currentPath)}
    /\ FileFrame
    /\ UNCHANGED cleanupErr

\* Step 4: the temp file is removed; a failure is only logged
FileCleanup ==
    /\ mainPc = "file"
    /\ pc = "fileCleanup"
    /\ \E fault \in FaultChoices({"none", "fail"}) :
        LET r == Try(fault, fs, RemoveAll(fs, tempFile))
        IN /\ fs' = r.fs
           /\ cleanupErr' = ~r.ok
           /\ faults' = faults + Count(fault)
    /\ lastOps' = {Op("Remove", tempFile)}
    /\ Return("nil")
    /\ FileFrame
    /\ UNCHANGED rollbackErr

FileNext ==
    \/ FileBackup
    \/ FileCopy
    \/ FileMove
    \/ FileCleanup

FileSpec == FileInit /\ [][FileNext]_vars

Next ==
    \/ update
    \/ Validate
    \/ waitForProcessExit
    \/ ProcessExits
    \/ CallAtomicReplace
    \/ ReplaceFailed
    \/ Launch
    \/ Classify
    \/ Dispatch
    \/ CreateBackup
    \/ BackupStep
    \/ BackupFailed
    \/ BeginCopy
    \/ CopyStep
    \/ BeginRestore
    \/ RestoreStep
    \/ RunDeferred
    \/ Cleanup

Spec == Init /\ [][Next]_vars

\* the steps of atomicReplace: one goroutine, no wait, no lock, so a step
\* that can be taken is taken
EngineNext ==
    \/ Classify
    \/ Dispatch
    \/ CreateBackup
    \/ BackupStep
    \/ BackupFailed
    \/ BeginCopy
    \/ CopyStep
    \/ BeginRestore
    \/ RestoreStep
    \/ RunDeferred
    \/ Cleanup

\* atomicReplace called on its own
CallInit == Init /\ mainPc = "direct"

CallSpec == CallInit /\ [][EngineNext]_vars /\ WF_vars(EngineNext)

(***************************************************************************)
(* What the claims speak about.                                            *)
(***************************************************************************)
Returned == pc = "done"
Succeeded == pc = "done" /\ err = "nil"

\* the names the engine itself gives to entries
EngineNames == {BackupName, "A.app.new", "A.app.old", "A.app.current"}

\* the content below root: relative path -> kind and bytes
ContentTree(f, root) ==
    [r \in {Rel(root, q) : q \in Under(f, root) \ {root}} |->
        [kind |-> f[root \o r].kind, data |-> f[root \o r].data]]

\* the same without the engine's own entries directly under root
UserTree(f, root) ==
    LET t == ContentTree(f, root)
    IN [r \in {x \in DOMAIN t : x[1] \notin EngineNames} |-> t[r]]

\* no entry of the engine is left directly under currentPath
NoArtifacts ==
    \A n \in EngineNames : ~Exists(fs, Join(currentPath, n))

\* every file currentPath held before the call is, with its bytes, at its
\* place or at the same place inside the backup directory
OriginalRetrievable ==
    \A q \in Under(fs0, currentPath) :
        IsFile(fs0, q) =>
            \E at \in {q, tempBackupDir \o Rel(currentPath, q)} :
                IsFile(fs, at) /\ fs[at].data = fs0[q].data

\* the new version is complete in currentPath
NewInstalled == UserTree(fs, currentPath) = ContentTree(fs0, newPath)

\* the bundles directly under the two arguments, before the call
TopBundles ==
    {q \in ChildrenOf(fs0, currentPath) \cup ChildrenOf(fs0, newPath) :
        IsDir(fs0, q) /\ HasSuffixApp(Base(q))}

\* a bundle passed as the argument itself
BareBundle(p) == goos = "darwin" /\ IsDir(fs0, p) /\ PathHasSuffixApp(p)

(***************************************************************************)
(* C1.  Whenever atomicReplace returns success, the content tree of        *)
(* currentPath equals the content tree newPath had before the call (engine *)
(* entries ignored), for every pair of directories.                        *)
(***************************************************************************)
C1_SuccessInstallsNew == Succeeded => NewInstalled

(***************************************************************************)
(* C2.  When the copy phase failed and the restore returned no error,      *)
(* currentPath holds exactly what it held before the call.                 *)
(***************************************************************************)
C2_CopyFailureRestoresCurrent ==
    (Returned /\ err = "CopyFailed" /\ ~rollbackErr)
        => ContentTree(fs, currentPath) = ContentTree(fs0, currentPath)

(***************************************************************************)
(* C3.  When the backup phase failed, the backup directory is gone and     *)
(* currentPath holds what it held before the call.                         *)
(***************************************************************************)
C3_BackupFailureLosesNothing ==
    (Returned /\ err = "BackupFailed")
        => /\ ~Exists(fs, tempBackupDir)
           /\ ContentTree(fs, currentPath) = ContentTree(fs0, currentPath)

(***************************************************************************)
(* C4.  In every state of a call, the original files are retrievable (in   *)
(* place or in the backup directory) or the new version is complete.       *)
(***************************************************************************)
C4_OriginalOrNew == OriginalRetrievable \/ NewInstalled

(***************************************************************************)
(* C5.  Whenever atomicReplace returns success, currentPath holds no       *)
(* backup directory and no other engine artifact.                          *)
(***************************************************************************)
C5_SuccessLeavesNoArtifact == Succeeded => NoArtifacts

\* C5, for a cleanup step whose os.RemoveAll returned no error: whenever
\* atomicReplace returns success, currentPath holds no backup directory and
\* no other engine artifact.
C5_CleanSuccessLeavesNoArtifact == (Succeeded /\ ~cleanupErr) => NoArtifacts

C5_Witness ==
    /\ Succeeded
    /\ ~cleanupErr
    /\ \E q \in Under(fs, currentPath) : IsFile(fs, q) /\ fs[q].data = "v2"

(***************************************************************************)
(* C6.  No step of a call acts on a path inside a bundle that is a direct  *)
(* child of currentPath or newPath, nor lists such a bundle.               *)
(***************************************************************************)
C6_BundlesHandledWhole ==
    \A o \in lastOps : \A b \in TopBundles :
        /\ ~StrictlyInside(o.path, b)
        /\ ~(o.op = "ReadDir" /\ o.path = b)

(***************************************************************************)
(* C7.  When newPath has a bundle as a direct child, the entry of that     *)
(* name in currentPath is, in every state, the complete old bundle, the    *)
(* complete new bundle, or absent.                                         *)
(***************************************************************************)
C7_BundleNeverPartial ==
    \A b \in ChildrenOf(fs0, newPath) :
        (IsDir(fs0, b) /\ HasSuffixApp(Base(b)) /\ currentPath # newPath) =>
            LET dest == Join(currentPath, Base(b))
            IN \/ ~Exists(fs, dest)
               \/ /\ Exists(fs0, dest)
                  /\ ContentTree(fs, dest) = ContentTree(fs0, dest)
                  /\ fs[dest].kind = fs0[dest].kind
               \/ /\ IsDir(fs, dest)
                  /\ ContentTree(fs, dest) = ContentTree(fs0, b)

(***************************************************************************)
(* C8.  When currentPath holds a bundle and newPath an updated bundle of   *)
(* the same name, then after success the bundle in currentPath is the new  *)
(* one and no <bundle>.old or <bundle>.new is left.                        *)
(***************************************************************************)
C8_BundleUpdated ==
    \A b \in ChildrenOf(fs0, newPath) :
        LET dest == Join(currentPath, Base(b))
        IN (/\ Succeeded
            /\ IsDir(fs0, b) /\ HasSuffixApp(Base(b))
            /\ IsDir(fs0, dest)
            /\ ContentTree(fs0, dest) # ContentTree(fs0, b))
           => /\ IsDir(fs, dest)
              /\ ContentTree(fs, dest) = ContentTree(fs0, b)
              /\ ~Exists(fs, Join(currentPath, AddSuffix(Base(b), ".old")))
              /\ ~Exists(fs, Join(currentPath, AddSuffix(Base(b), ".new")))

C8_Witness ==
    /\ Succeeded
    /\ variant = "bundle"
    /\ IsDir(fs0, Join(currentPath, "A.app"))
    /\ IsDir(fs0, Join(newPath, "A.app"))
    /\ IsFile(fs, Join(Join(currentPath, "A.app"), "app"))
    /\ fs[Join(Join(currentPath, "A.app"), "app")].data = "v2"

(***************************************************************************)
(* C9.  areTypesCompatible is true exactly for two file-like or two        *)
(* directory-like types, and atomicReplace returns the type-mismatch error *)
(* exactly when one argument is a file and the other a directory.          *)
(***************************************************************************)
C9_TypeMismatchExactlyMixed ==
    /\ \A a, b \in ApplicationType :
          areTypesCompatible(a, b) <=> ((a = "SingleFile") <=> (b = "SingleFile"))
    /\ Returned => ((err = "TypeMismatch") <=> (IsFile(fs0, currentPath) # IsFile(fs0, newPath)))

C9_Witness ==
    /\ Returned
    /\ err = "TypeMismatch"
    /\ IsFile(fs0, currentPath)
    /\ IsDir(fs0, newPath)
    /\ fs = fs0

(***************************************************************************)
(* C10.  A call with a single file or a bare bundle as either argument is  *)
(* rejected: it never gets past the checks of atomicReplace.               *)
(***************************************************************************)
C10_OddArgumentsRejected ==
    (\/ IsFile(fs0, currentPath) \/ IsFile(fs0, newPath)
     \/ BareBundle(currentPath) \/ BareBundle(newPath))
        => /\ pc \in {"idle", "atomicReplace", "done"}
           /\ Returned => err \in {"TypeMismatch", "UnsupportedType"}

(***************************************************************************)
(* C11.  A call that ends with a classification error, a type-mismatch     *)
(* error or an unsupported-type error has changed nothing on the           *)
(* filesystem: no backup directory, nothing moved, copied or removed.      *)
(***************************************************************************)
C11_RejectionChangesNothing ==
    (Returned /\ err \in {"DetectFailed", "TypeMismatch", "UnsupportedType"})
        => /\ fs = fs0
           /\ ~Exists(fs, tempBackupDir)

C11_Witness ==
    /\ Returned
    /\ err = "UnsupportedType"
    /\ IsDir(fs0, currentPath)
    /\ IsDir(fs0, newPath)
    /\ lastOps # {}
    /\ fs = fs0

(***************************************************************************)
(* C12.  While atomicReplace runs under main, the process the PID names    *)
(* has exited: main calls atomicReplace only after that process is gone.   *)
(***************************************************************************)
C12_ReplaceAfterExit == (mainPc = "atomicReplace") => pid = "gone"

(***************************************************************************)
(* C13.  In every run of main the steps come in the order validate, wait,  *)
(* atomicReplace, launchApplication; launchApplication is called exactly   *)
(* when atomicReplace returned success; when atomicReplace fails the run   *)
(* ends with a failure exit and nothing launched.                          *)
(***************************************************************************)
MainOrder == <<"validate", "wait", "atomicReplace", "launchApplication">>

C13_MainOrder ==
    mainPc # "direct" =>
        /\ Len(order) <= Len(MainOrder) /\ order = SubSeq(MainOrder, 1, Len(order))
        /\ pc # "idle" <=> Len(order) >= 3
        /\ launched # "no" <=> Len(order) = 4
        /\ (mainPc = "exit" /\ pc = "done") => (Len(order) = 4 <=> err = "nil")
        /\ (mainPc = "exit" /\ pc = "done" /\ err # "nil")
              => (exitCode = "1" /\ launched = "no")

C13_Witness ==
    /\ mainPc = "exit"
    /\ order = MainOrder
    /\ err = "nil"
    /\ launched = "started"
    /\ exitCode = "0"

C15_CleanupFailureTolerated ==
    [][(pc = "cleanup" /\ pc' # "cleanup")
          => (pc' = "done" /\ err' = "nil" /\ rollbackErr' = rollbackErr)]_vars

C15_Witness ==
    /\ Returned
    /\ err = "nil"
    /\ cleanupErr
    /\ Exists(fs, tempBackupDir)

(***************************************************************************)
(* C16.  When the restore after a copy failure itself fails, the error     *)
(* atomicReplace returns is a RollbackFailed outcome, distinct from the    *)
(* CopyFailed of a call whose restore succeeded.                           *)
(***************************************************************************)
C16_RollbackFailedDistinct == (Returned /\ rollbackErr) => err = "RollbackFailed"

(***************************************************************************)
(* C17.  After a successful atomicReplace every file and directory of      *)
(* currentPath has the permission bits of its counterpart in newPath.      *)
(***************************************************************************)
C17_PermissionsPreserved ==
    (Succeeded /\ currentPath # newPath) =>
        \A q \in Under(fs0, newPath) \ {newPath} :
            LET at == currentPath \o Rel(newPath, q)
            IN Exists(fs, at) => fs[at].mode = fs0[q].mode

(***************************************************************************)
(* C18.  In a run of main the backup directory is removed only after the   *)
(* new version has been launched successfully.                             *)
(***************************************************************************)
C18_CleanupAfterLaunch ==
    (mainPc # "direct" /\ Succeeded /\ ~cleanupErr) => launched = "started"

HoldsBundle(f, p) ==
    /\ IsDir(f, p)
    /\ ~PathHasSuffixApp(p)
    /\ \E q \in ChildrenOf(f, p) : IsDir(f, q) /\ HasSuffixApp(Base(q))

C20_BundleContainerEverywhere ==
    \A p \in DOMAIN fs :
        HoldsBundle(fs, p) =>
            detectApplicationType(fs, p) = [ok |-> TRUE, type |-> "MacAppBundleDirectory"]

\* C20 on macOS, for a directory that os.Stat and os.ReadDir can read: every
\* such directory that is not bundle-named and has a bundle-named directory
\* as a direct child classifies as the bundle-container type, loose
\* executables or not.
C20_BundleContainerOnMac ==
    \A p \in DOMAIN fs :
        (goos = "darwin" /\ HoldsBundle(fs, p) /\ StatOk(fs, p) /\ CanListDir(fs, p)) =>
            detectApplicationType(fs, p) = [ok |-> TRUE, type |-> "MacAppBundleDirectory"]

C20_Witness ==
    /\ goos = "darwin"
    /\ HoldsBundle(fs, currentPath)
    /\ IsFile(fs, Join(currentPath, "tool.exe"))
    /\ AnyX(fs[Join(currentPath, "tool.exe")].mode)
    /\ currentType = "MacAppBundleDirectory"

(***************************************************************************)
(* The executable locator.                                                 *)
(***************************************************************************)
PlainWithExecutables == {"MacDirectory", "WindowsAppDirectory", "LinuxAppDirectory"}

\* the executable extension of the platform (none outside Windows)
PlatformExtension == IF goos = "windows" THEN ".exe" ELSE ""

\* the executable candidates of dir, as findExecutableInDirectory lists them
Candidates(f, dir) ==
    findExecutablesInDirectory(f, dir,
        IF detectApplicationType(f, dir).type = "WindowsAppDirectory" THEN ".exe" ELSE "")

\* two file names are equal without case and without the platform extension
SameName(a, b) ==
    TrimSuffix(ToLower(a), PlatformExtension) = TrimSuffix(ToLower(b), PlatformExtension)

SeqRange(q) == {q[i] : i \in 1..Len(q)}

\* C21: when the launch of a plain directory with executables was given a
\* preferred name, the executable started is a candidate whose file name
\* equals the preferred name, case and platform extension ignored on both
\* sides, whenever there is such a candidate; only when there is none is it
\* the first candidate.
C21_PreferredNameSelected ==
    (/\ mainPc = "exit"
     /\ launched = "started"
     /\ appName # ""
     /\ detectApplicationType(fs, currentPath).type \in PlainWithExecutables)
    => LET cands == Candidates(fs, currentPath)
           matching == SelectSeq(cands, LAMBDA exe : SameName(Base(exe), appName))
       IN IF matching # <<>> THEN launchedPath \in SeqRange(matching)
          ELSE launchedPath = Head(cands)

\* the entries below dir that are executable candidates on this platform: a
\* file with an execute bit (elsewhere than on Windows), a file with the
\* executable extension (on Windows), a bundle directory (on macOS)
ExecutableEntries(f, dir) ==
    {p \in Under(f, dir) \ {dir} :
        IF IsDir(f, p) THEN goos = "darwin" /\ HasSuffixApp(Base(p))
        ELSE IF goos = "windows" THEN HasSuffixExe(Base(p))
        ELSE AnyX(f[p].mode)}

\* C22: on every filesystem a run passes through, for a directory classified
\* as a plain directory with executables and no preferred name,
\* findExecutableInDirectory returns the path of an executable candidate
\* that exists inside the directory; it fails for such a directory only when
\* the directory holds no executable candidate.
C22_ExecutableFound ==
    \A dir \in {currentPath, newPath} :
        LET t == detectApplicationType(fs, dir)
            r == findExecutableInDirectory(fs, dir, "")
        IN (t.ok /\ t.type \in PlainWithExecutables)
           => /\ r.ok => /\ r.path \in ExecutableEntries(fs, dir)
                         /\ Exists(fs, r.path)
                         /\ StrictlyInside(r.path, dir)
              /\ ~r.ok => ExecutableEntries(fs, dir) = {}
              /\ r.ok

\* a launch without a preferred name started an executable of currentPath
C22_Witness ==
    /\ mainPc = "exit"
    /\ launched = "started"
    /\ appName = ""
    /\ detectApplicationType(fs, currentPath).type \in PlainWithExecutables
    /\ launchedPath = findExecutableInDirectory(fs, currentPath, "").path
    /\ launchedPath \in ExecutableEntries(fs, currentPath)

(***************************************************************************)
(* The validation of main.                                                 *)
(***************************************************************************)
\* an argument main must reject: missing, not a directory, or bundle-suffixed
Rejectable(p) == ~Exists(fs0, p) \/ ~IsDir(fs0, p) \/ PathHasSuffixApp(p)

\* C23: a run of main whose currentPath or newPath is missing, is not a
\* directory or ends in the bundle suffix never gets past the validation: it
\* ends with a failure status, it never waits for the PID, never calls
\* atomicReplace or launchApplication, and the filesystem stays as it was.
C23_RejectedBeforeWaiting ==
    (/\ mainPc \notin {"direct", "update"}
     /\ result = "none"
     /\ (Rejectable(currentPath) \/ Rejectable(newPath)))
    => /\ mainPc \in {"validate", "exit"}
       /\ mainPc = "exit" => (exitCode \in {"1", "2"} /\ order = <<"validate">>)
       /\ mainPc = "validate" => order = <<>>
       /\ pc = "idle"
       /\ launched = "no"
       /\ fs = fs0

\* main has rejected a bundle-suffixed newPath while the process was running
C23_Witness ==
    /\ mainPc = "exit"
    /\ exitCode = "1"
    /\ order = <<"validate">>
    /\ ~Rejectable(currentPath)
    /\ IsDir(fs0, newPath) /\ PathHasSuffixApp(newPath)
    /\ pid = "running"
    /\ fs = fs0

(***************************************************************************)
(* The lifetime of the backup directory.                                   *)
(***************************************************************************)
\* C24: when atomicReplace has returned a failure after its backup directory
\* was created (the backup failed, or the copy failed and the restore
\* succeeded), the backup directory no longer exists in currentPath.
C24_BackupGoneAfterFailure ==
    (Returned /\ err \in {"BackupFailed", "CopyFailed"} /\ ~rollbackErr)
    => ~Exists(fs, tempBackupDir)

ProbedLocations(dir) ==
    IF goos = "linux" THEN {dir, Join(dir, "bin"), Join(Join(dir, "usr"), "bin")}
    ELSE {dir}

\* C26: on every filesystem a run passes through, a directory is classified
\* as a plain directory with executables only if an executable candidate is
\* a direct child of it (on Linux also of its bin/ or usr/bin/); a directory
\* whose only executables lie deeper is a GenericDirectory.
C26_ExecutablesAreDirectChildren ==
    \A dir \in {currentPath, newPath} :
        LET t == detectApplicationType(fs, dir)
        IN (t.ok /\ t.type \in PlainWithExecutables)
           => \E p \in ExecutableEntries(fs, dir) : Parent(p) \in ProbedLocations(dir)

(***************************************************************************)
(* The backup phase.                                                       *)
(***************************************************************************)
\* C27: when the backup phase has completed without an error (the copy phase
\* is about to start), currentPath has exactly one entry, the backup
\* directory, and the backup directory holds every entry currentPath had
\* before the call, at the same relative path and with the same content.
C27_BackupHoldsEverything ==
    pc = "copy"
    => /\ ChildrenOf(fs, currentPath) = {tempBackupDir}
       /\ ContentTree(fs, tempBackupDir) = ContentTree(fs0, currentPath)

\* a backup phase completed on a directory with files and a subdirectory
C27_Witness ==
    /\ pc = "copy"
    /\ ChildrenOf(fs, currentPath) = {tempBackupDir}
    /\ \E q \in Under(fs0, currentPath) :
          /\ Len(q) = Len(currentPath) + 2
          /\ IsFile(fs0, q)
          /\ IsFile(fs, tempBackupDir \o Rel(currentPath, q))
          /\ ~Exists(fs, q)

(***************************************************************************)
(* The choice between the plain and the bundle-aware functions.            *)
(***************************************************************************)
PlainFunctions ==
    [backup |-> "moveContentsToBackup", copy |-> "copyDirectoryTree",
     restore |-> "restoreFromBackup"]
BundleFunctions ==
    [backup |-> "moveAppBundleDirectoryContents", copy |-> "copyAppBundleDirectoryTree",
     restore |-> "restoreAppBundleDirectoryBackup"]

\* the phase a position of atomicDirectoryReplace belongs to
PhaseOf(p) ==
    CASE p = "backup" -> "backup"
      [] p = "copying" -> "copy"
      [] p = "restoring" -> "restore"
      [] OTHER -> "none"

\* C28: the choice between the plain and the bundle-aware functions follows
\* from the classification of currentPath alone (bundle-aware exactly for a
\* bundle container, whatever newPath is), and the function that runs the
\* backup, the copy or the restore of the call is the one of that choice.
C28_OneVariantPerCall ==
    /\ variant # "none"
       => (variant = "bundle"
           <=> detectApplicationType(fs0, currentPath).type = "MacAppBundleDirectory")
    /\ (stack # <<>> /\ PhaseOf(pc) # "none")
       => stack[1].fn = (IF variant = "bundle" THEN BundleFunctions
                         ELSE PlainFunctions)[PhaseOf(pc)]

\* the bundle-aware restore runs in a call whose newPath is no bundle container
C28_Witness ==
    /\ pc = "restoring"
    /\ variant = "bundle"
    /\ stack # <<>>
    /\ stack[1].fn = "restoreAppBundleDirectoryBackup"
    /\ newType # "MacAppBundleDirectory"

(***************************************************************************)
(* Bundles below the first level.                                          *)
(***************************************************************************)
\* p lies inside a bundle-suffixed directory
InsideBundle(p) == \E i \in 1..(Len(p) - 1) : HasSuffixApp(p[i])

\* C30: in a call that runs the bundle-aware functions on two directories
\* that are not bundles themselves, no step of the backup, the copy or the
\* restore lists a bundle-suffixed directory or acts on an entry inside one,
\* wherever in the tree the bundle is: every bundle is moved or copied as
\* one unit.
C30_EveryBundleTerminal ==
    (variant = "bundle" /\ ~PathHasSuffixApp(currentPath) /\ ~PathHasSuffixApp(newPath))
    => \A o \in lastOps :
          /\ ~InsideBundle(o.path)
          /\ ~(o.op = "ReadDir" /\ PathHasSuffixApp(o.path))

(***************************************************************************)
(* The three-step substitution of a bundle.                                *)
(***************************************************************************)
\* the bundles copyAppBundleDirectoryTree(newPath, currentPath) substitutes
SubstitutedBundles ==
    {b \in ChildrenOf(fs0, newPath) : IsDir(fs0, b) /\ HasSuffixApp(Base(b))}

\* the calls of the three steps for the destination name dp
SubstitutionOps(dp) ==
    LET tmp == Join(Parent(dp), AddSuffix(Base(dp), ".new"))
        old == Join(Parent(dp), AddSuffix(Base(dp), ".old"))
    IN {Op("ditto", tmp), Op("Rename", old), Op("Rename", tmp)}

CopyHasFailed == pc = "copyFailed" \/ (pc = "done" /\ err = "CopyFailed")

\* C29: in copyAppBundleDirectoryTree called on its own, a step that fails
\* makes the function return an error; and when the failed step is one of
\* the three steps of a bundle substitution (the copy to <name>.new, the
\* rename of <name> to <name>.old, the rename of <name>.new to <name>), then
\* no <name>.new remains and <name>, when the destination had it before the
\* call, is that bundle unchanged.
C29_FailedSubstitutionKeepsOld ==
    /\ (pc \in {"copying", "cleanup"} \/ (pc = "done" /\ err = "nil")) => faults = 0
    /\ \A b \in SubstitutedBundles :
          LET dp == Join(currentPath, Base(b))
              tmp == Join(currentPath, AddSuffix(Base(b), ".new"))
          IN (CopyHasFailed /\ SubstitutionOps(dp) \cap lastOps # {})
             => /\ ~Exists(fs, tmp)
                /\ Exists(fs0, dp)
                   => /\ Exists(fs, dp)
                      /\ Restrict(fs, Under(fs, dp)) = Restrict(fs0, Under(fs0, dp))

\* the rename of <name>.new to <name> has failed on a destination that held
\* the bundle: the function has returned its error, the old bundle is back
C29_Witness ==
    /\ mainPc = "copyTree"
    /\ pc = "done" /\ err = "CopyFailed"
    /\ faults = 1
    /\ \E b \in SubstitutedBundles :
          LET dp == Join(currentPath, Base(b))
          IN /\ lastOps = {Op("Rename", Join(currentPath, AddSuffix(Base(b), ".new"))),
                           Op("Rename", dp)}
             /\ Exists(fs0, dp)
             /\ Restrict(fs, Under(fs, dp)) = Restrict(fs0, Under(fs0, dp))

(***************************************************************************)
(* The names the engine gives to its own entries.                          *)
(***************************************************************************)
\* the three conventional names: <bundle>.new, <bundle>.old, the backup directory
ConventionalNames == {BackupName, "A.app.new", "A.app.old"}

\* the entries below currentPath whose name is neither a name of the old or
\* the new content nor a conventional name
UnconventionalEntries ==
    {q \in Under(fs, currentPath) \ {currentPath} :
        /\ Base(q) \notin ConventionalNames
        /\ \A r \in DOMAIN fs0 : Len(r) > 0 => Base(r) # Base(q)}

\* C31: in every state of a call, and when it has returned, every entry
\* below currentPath has a name of the old or of the new content, or one of
\* the three conventional names <bundle>.new, <bundle>.old and the backup
\* directory: the engine makes and leaves no entry with another suffix.
C31_ThreeSuffixesOnly ==
    mainPc # "copyTree" => UnconventionalEntries = {}

(***************************************************************************)
(* The uniqueness of the backup directory name.                            *)
(***************************************************************************)
\* C32: two attempts that read two different nanosecond clock values get
\* two different backup directory names.
C32_NamesUnique ==
    \A i, j \in 1..Len(attempts) :
        attempts[i].at # attempts[j].at => attempts[i].name # attempts[j].name

(***************************************************************************)
(* The working directory of the started application.                       *)
(***************************************************************************)
StartedFromPlainDirectory ==
    /\ launched = "started"
    /\ detectApplicationType(fs, currentPath).type
           \in {"MacDirectory", "WindowsAppDirectory", "LinuxAppDirectory"}

\* C34: an executable started from a plain directory with executables runs
\* with the folder that contains it as its working directory.
C34_WorkDirIsContainingFolder ==
    StartedFromPlainDirectory => launchedDir = Parent(launchedPath)

(***************************************************************************)
(* Backup and restore of the permission bits of directories.               *)
(***************************************************************************)
\* the directories currentPath held before the call that only the restore
\* can have made again: the new version has no directory at their place
RecreatedByRestore ==
    {q \in Under(fs0, currentPath) \ {currentPath} :
        /\ IsDir(fs0, q)
        /\ IsDir(fs, q)
        /\ ~Exists(fs0, newPath \o Rel(currentPath, q))}

\* the directories of the old version inside the backup directory
BackedUpDirectories ==
    {q \in Under(fs0, currentPath) \ {currentPath} :
        /\ IsDir(fs0, q)
        /\ IsDir(fs, tempBackupDir \o Rel(currentPath, q))}

\* C33: a directory moved into the backup directory is created there with
\* the permission bits of the original, and a directory the restore makes
\* again in currentPath has the permission bits it had before the call.
C33_BackupRestoreKeepsModes ==
    (mainPc \notin {"copyTree", "names"} /\ variant = "plain"
        /\ ~IsPrefix(currentPath, newPath) /\ ~IsPrefix(newPath, currentPath)) =>
        /\ \A q \in BackedUpDirectories :
               fs[tempBackupDir \o Rel(currentPath, q)].mode = fs0[q].mode
        /\ (Returned /\ err = "CopyFailed") =>
               \A q \in RecreatedByRestore : fs[q].mode = fs0[q].mode

(***************************************************************************)
(* The order of the steps of one call.                                     *)
(***************************************************************************)
\* the step of atomicDirectoryReplace (or atomicAppBundleDirectoryReplace) a
\* position of the call belongs to: 1 create-backup, 2 move-to-backup,
\* 3 copy, 4 restore, 5 cleanup, 6 returned
StepOf(p) ==
    CASE p = "createBackup" -> 1
      [] p \in {"backup", "backupFailed"} -> 2
      [] p \in {"copy", "copying", "copyFailed"} -> 3
      [] p \in {"restoring", "deferred"} -> 4
      [] p = "cleanup" -> 5
      [] p = "done" -> 6
      [] OTHER -> 0

\* C35: the steps create-backup, move-to-backup, copy, restore and cleanup
\* are each attempted at most once and in that order (the call never goes
\* back to an earlier step, and never re-enters one it has left); the
\* restore is attempted exactly when the copy has failed: it is entered from
\* the failed copy only, a failed copy never returns without it, a failed
\* backup returns at once, and a completed copy goes to the cleanup and the
\* return.
C35_StepsOnceInOrder ==
    [][/\ StepOf(pc') >= StepOf(pc)
       /\ (pc' = "copyFailed" /\ pc # "copyFailed") => pc \in {"copy", "copying"}
       /\ (StepOf(pc') = 4 /\ StepOf(pc) # 4) => pc = "copyFailed"
       /\ (pc = "copyFailed" /\ pc' # "copyFailed") =>
              /\ Op("ReadDir", tempBackupDir) \in lastOps'
              /\ (pc' = "done" => err' = "CopyFailed")
       /\ (pc = "backupFailed" /\ pc' # "backupFailed") =>
              pc' = "done" /\ err' = "BackupFailed"
       /\ (pc' = "cleanup" /\ pc # "cleanup") => pc \in {"copy", "copying"}
       /\ (pc = "cleanup" /\ pc' # "cleanup") => pc' = "done" /\ err' = "nil"
       /\ (StepOf(pc) = 4 /\ pc' = "done") => err' = "CopyFailed"]_vars

\* a call that has returned after a failed copy and a restore of several steps
C35_Witness ==
    /\ mainPc = "direct"
    /\ Returned
    /\ err = "CopyFailed"
    /\ \E o \in lastOps : o.op = "Rename" /\ IsPrefix(tempBackupDir, o.path)

(***************************************************************************)
(* The restore after a copy that could not read a file.                    *)
(***************************************************************************)
\* newPath is a flat directory of files of which one at least cannot be
\* read, apart from currentPath: nothing but the read of such a file can
\* make the copy fail when no call is disturbed
OnlyUnreadableFile ==
    /\ ~IsPrefix(currentPath, newPath)
    /\ ~IsPrefix(newPath, currentPath)
    /\ \A q \in Under(fs0, newPath) \ {newPath} : IsFile(fs0, q)
    /\ \E q \in Under(fs0, newPath) : IsFile(fs0, q) /\ ~CanReadFile(fs0, q)

\* C36: when the copy fails only because a file of newPath cannot be read
\* and no other call fails by itself, the restore completes without error.
C36_RestoreCompletes ==
    (mainPc \notin {"copyTree", "names"} /\ Returned /\ err = "CopyFailed"
        /\ faults = 0 /\ OnlyUnreadableFile) => ~rollbackErr

(***************************************************************************)
(* What a call leaves alone.                                               *)
(***************************************************************************)
\* neither argument lies inside the other (nor are they the same)
Disjoint == ~IsPrefix(currentPath, newPath) /\ ~IsPrefix(newPath, currentPath)

\* the entries outside currentPath, with kind, bytes and permission bits
Outside(f) ==
    [q \in {x \in DOMAIN f : ~StrictlyInside(x, currentPath)} |->
        IF q = currentPath THEN f[q].kind ELSE f[q]]

\* C37: for two arguments that do not contain one another, no step of
\* atomicReplace creates, changes, moves or removes an entry outside
\* currentPath: the tree under newPath and everything else outside
\* currentPath are, at every step and on return, as they were before the
\* call.
C37_OnlyCurrentPathChanges ==
    (mainPc \notin {"copyTree", "names"} /\ Disjoint) => Outside(fs) = Outside(fs0)

\* a call on separate directories that has returned after changing currentPath
C37_Witness ==
    /\ mainPc = "direct"
    /\ Disjoint
    /\ Returned
    /\ ContentTree(fs, currentPath) # ContentTree(fs0, currentPath)

C39_EveryCallReturns ==
    (pc = "atomicReplace" /\ IsDir(fs, currentPath) /\ IsDir(fs, newPath)) ~> Returned

\* a call with currentPath inside newPath has returned after its copy went
\* down into the directory it was writing
C39_Witness ==
    /\ StrictlyInside(currentPath, newPath)
    /\ Returned
    /\ \E q \in DOMAIN fs :
           /\ StrictlyInside(q, currentPath)
           /\ Len(q) >= Len(currentPath) + 2
           /\ q[Len(currentPath) + 1] # BackupName
           /\ q \notin DOMAIN fs0

(***************************************************************************)
(* The rollback of the replacement of a single file.                       *)
(***************************************************************************)
\* C40: when the copy to the intermediate file or the final rename fails
\* and the rename that rolls back succeeds, currentPath is on return the
\* original file, and neither the temp file nor the intermediate file
\* remains.
C40_FileRollbackLeavesNothing ==
    (mainPc = "file" /\ Returned /\ err \in {"CopyFailed", "MoveFailed"}
        /\ ~rollbackErr) =>
        /\ Exists(fs, currentPath) /\ fs[currentPath] = fs0[currentPath]
        /\ ~Exists(fs, tempFile)
        /\ ~Exists(fs, newFile)

====
